---- MODULE Spec2Model ----
(***************************************************************************)
(* A model of the bitaxe-monitor telemetry core: the chat bot's alert      *)
(* tracker (src/src/discord/bot.py), the poller daemon (src/src/logger.py) *)
(* and the metrics store (src/src/database.py).                            *)
(*                                                                         *)
(* Three specifications share the variables below; each one moves only its *)
(* own part of the state:                                                  *)
(*   Spec        the alert tracker reading the store a poller writes to    *)
(*   SpecPoller  one poller daemon: its loop, its poll cycle, its stores   *)
(*   SpecConfig  two writers calling get_or_create_config on one file      *)
(***************************************************************************)
EXTENDS Integers, Sequences, FiniteSets, Bags, TLC

(***************************************************************************)
(* Bounds of the model.                                                    *)
(***************************************************************************)
\* steps of the clock
MaxTicks == 1
\* best-difficulty values are 1..MaxDiff
MaxDiff == 2
\* consecutive offline checks of a device that are told apart
MaxStreak == 3
\* poll cycles the daemon starts
MaxCycles == 2
\* get_or_create_config calls per writer
MaxCalls == 2
\* rows in performance_metrics in the specifications of the queries
MaxRows == 3
\* samples in the uptime history of the one device
MaxSamples == 4
\* samples, of any spacing and hashrate, in the history the trends are taken of
MaxTrendSamples == 3
\* samples in the history the variances are taken of
MaxVarianceSamples == 2
\* entries of a list handed to the variance computation on its own
MaxEntries == 4
\* samples of the steady history (five minutes apart, one hashrate)
MaxSteady == 10
\* samples of a history in the temperature-trend specification
MaxTempSamples == 3
\* charts generated, and minutes of the clock, in the chart specification
MaxCharts == 2
MaxChartMinutes == 7
\* the longest difficulty string enumerated
MaxLen == 4
\* five-minute steps of the clock in the health specification
MaxHealthSteps == 4

(***************************************************************************)
(* Program constants.                                                      *)
(***************************************************************************)
\* AlertConfig.offline_threshold_minutes
OfflineThresholdMinutes == 10
\* get_total_uptime: a restart resets uptime to less than this many seconds
MAX_RESTART_UPTIME == 3600
\* ChartsConfig.cache_ttl, seconds
cache_ttl == 300
\* check_overheating: temp_threshold
TempThreshold == 65
\* a NULL column value / Python's None where a number is expected
NULL == -1

\* config.yaml: the configured devices, in list order (all enabled)
DeviceList == <<"d1", "d2">>
DeviceIds == {DeviceList[i] : i \in DOMAIN DeviceList}

\* minutes the clock advances in one step: past the offline threshold
TickMinutes == OfflineThresholdMinutes + 5
MaxNow == MaxTicks * TickMinutes

AsicTemps == {TempThreshold - 1, TempThreshold}
BestDiffs == {NULL} \cup (1..MaxDiff)

VARIABLES
    \* ---- the store file, as the tracker's model sees it
    now,                 \* wall clock, minutes
    devices,             \* table devices: the registered ids
    latest_row,          \* table performance_metrics: per device, its newest row
    max_best_diff,       \* table performance_metrics: MAX(best_diff)
    \* ---- BitaxeBot
    config,              \* DiscordConfig: which features are enabled
    bot,                 \* "constructed" (after __init__) | "ready" (after on_ready)
    jobs,                \* ids of the jobs added to self.scheduler
    scheduler_running,   \* self.scheduler.start() was called
    offline_miners,
    overheating_miners,
    highest_diff_seen,
    sent,                \* the messages the step just taken sent to the alert channel
    \* ---- history variables of the tracker (observers, read by no action guard)
    checksRun,           \* checks run since the last __init__: 0, 1, or 2 for more
    preOffline,          \* offline_miners of the process that was restarted (kept until the second check)
    preOverheating,      \* overheating_miners of the process that was restarted (likewise)
    streak,              \* per device: consecutive offline checks so far (capped)
    streakAlerts,        \* per device: positions in the streak where an alert went out
    maxAtStart           \* the greatest best_diff in the store when on_ready ran

\* ---- BitaxeLogger (the poller daemon), SpecPoller
VARIABLES
    running,             \* self.running
    ppc,                 \* where run() is
    poll_count,
    fetch,               \* per device: the state of its poll_device coroutine
    awaited,             \* poll_all_devices: tasks awaited so far
    results,             \* poll_all_devices: the result list (device names)
    processed,           \* run(): results handled so far in this cycle
    inserted,            \* rows the poller inserted: <<poll_count, device>>
    store_failed,        \* devices whose store_metrics raised in this cycle
    errors_logged        \* "Error in main loop" lines logged

\* ---- the clock_configs table and its writers, SpecConfig
VARIABLES
    clock_configs,       \* rows [id, frequency, core_voltage]
    next_id,             \* AUTOINCREMENT
    wpc,                 \* per writer: where get_or_create_config is
    wargs,               \* per writer: the (frequency, core_voltage) of the call
    wret,                \* per writer: the id returned by the last call
    wcalls               \* per writer: calls made

\* ---- the performance_metrics table as the queries read it, and the answer
\* of the query last made (SpecStore, SpecUptime, SpecTrend, SpecVariance)
VARIABLES
    performance_metrics, \* the rows, in rowid (insertion) order
    reply                \* [op, args, value]: the last call of the store and what it returned

\* ---- the run_logger entry point around BitaxeLogger.run, SpecMain
VARIABLES
    mpc,                 \* where main() is
    conn,                \* Database.conn: "open" | "closed"
    wal,                 \* the write-ahead log: "pending" | "checkpointed" | "checkpoint_failed"
    store_calls          \* the Store operations main() issued from `finally`: [op, conn]

\* ---- ChartGenerator and its ChartCache, SpecChart
VARIABLES
    cache,               \* ChartCache.cache: key -> [data, timestamp]
    generated            \* figures rendered so far

\* ---- the API server's device profiles and what it sends to a device, SpecProfiles
VARIABLES
    profiles,            \* data/profiles.json: device id -> list of profiles
    patches              \* the settings payloads the request just handled sent to the device

pollerVars == <<running, ppc, poll_count, fetch, awaited, results, processed,
                inserted, store_failed, errors_logged>>
configVars == <<clock_configs, next_id, wpc, wargs, wret, wcalls>>
trackerVars == <<config, bot, jobs, scheduler_running, offline_miners,
                 overheating_miners, highest_diff_seen>>
botVars == <<trackerVars, sent>>
histVars == <<checksRun, preOffline, preOverheating, streak, streakAlerts, maxAtStart>>
storeVars == <<now, devices, latest_row, max_best_diff>>
tableVars == <<performance_metrics, reply>>
mainVars == <<mpc, conn, wal, store_calls>>
cacheVars == <<cache, generated>>
profileVars == <<profiles, patches>>
appVars == <<mainVars, cacheVars, profileVars>>
vars == <<storeVars, botVars, histVars, pollerVars, configVars, tableVars, appVars>>

(***************************************************************************)
(* The store: src/src/database.py                                          *)
(***************************************************************************)
\* the columns of performance_metrics the tracker reads
MetricRow(d, ts, temp, diff) ==
    [device_id |-> d, timestamp |-> ts, asic_temp |-> temp, best_diff |-> diff]

\* cursor.fetchone() returning None
NoRow == MetricRow("", NULL, NULL, NULL)

\* Database.insert_metric, with the timestamp the poller assigns at write
\* time, after BitaxeLogger.store_metrics registered the device.  The table is
\* append-only and the tracker reads it through two queries only, so the model
\* keeps what those queries return: the row with the greatest timestamp of
\* each device, and MAX(best_diff) over all rows (NULL when every best_diff is
\* NULL).
insert_metric(d, temp, diff) ==
    /\ devices' = devices \cup {d}
    /\ latest_row' = [latest_row EXCEPT ![d] =
                        IF @ = NoRow \/ @.timestamp <= now
                        THEN MetricRow(d, now, temp, diff) ELSE @]
    /\ max_best_diff' = IF diff # NULL /\ (max_best_diff = NULL \/ diff > max_best_diff)
                        THEN diff ELSE max_best_diff

\* Database.get_latest_metric: ORDER BY pm.timestamp DESC LIMIT 1
get_latest_metric(d) == latest_row[d]

\* a mutant of get_device_health_status: time_diff < minutes_threshold
get_device_health_status_Strict(d, minutes_threshold) ==
    LET row == get_latest_metric(d)
    IN  IF row = NoRow
        THEN [is_online |-> FALSE, last_seen |-> NULL]
        ELSE [is_online |-> (now - row.timestamp) < minutes_threshold,
              last_seen |-> row.timestamp]

\* Database.get_device_health_status (the fields the tracker reads)
get_device_health_status(d, minutes_threshold) ==
    LET row == get_latest_metric(d)
    IN  IF row = NoRow
        THEN [is_online |-> FALSE, last_seen |-> NULL]
        ELSE [is_online |-> (now - row.timestamp) <= minutes_threshold,
              last_seen |-> row.timestamp]

\* Database.get_all_device_health
get_all_device_health(device_ids, minutes_threshold) ==
    [d \in device_ids |-> get_device_health_status(d, minutes_threshold)]

\* Analyzer.get_all_devices_summary: one entry per registered device
get_all_devices_summary ==
    [d \in devices |-> [latest |-> get_latest_metric(d)]]

\* SELECT MAX(best_diff) FROM performance_metrics WHERE best_diff IS NOT NULL
MaxBestDiff == max_best_diff

(***************************************************************************)
(* The alert tracker: src/src/discord/bot.py                               *)
(***************************************************************************)
Message(kind, d, v) == [kind |-> kind, device |-> d, value |-> v]

\* one channel.send per element of a set of messages
SendAll(msgs) == [m \in msgs |-> 1]

Max2(a, b) == IF a >= b THEN a ELSE b
Min2(a, b) == IF a <= b THEN a ELSE b

\* check_offline_miners without the `if device_id not in self.offline_miners`
\* test: every offline device is alerted at every check
check_offline_miners_NoHysteresis(known_offline, health_data) ==
    LET currently_offline == {d \in DOMAIN health_data : ~health_data[d].is_online}
        recovered == known_offline \ currently_offline
    IN  [offline_miners |-> currently_offline,
         sent |-> SendAll({Message("offline", d, NULL) : d \in currently_offline})
                  (+) SendAll({Message("online", d, NULL) : d \in recovered})]

\* check_offline_miners adding to self.offline_miners instead of replacing it
check_offline_miners_Accumulates(known_offline, health_data) ==
    LET currently_offline == {d \in DOMAIN health_data : ~health_data[d].is_online}
        newly == {d \in currently_offline : d \notin known_offline}
        recovered == known_offline \ currently_offline
    IN  [offline_miners |-> known_offline \cup currently_offline,
         sent |-> SendAll({Message("offline", d, NULL) : d \in newly})
                  (+) SendAll({Message("online", d, NULL) : d \in recovered})]

\* BitaxeBot.check_offline_miners: the new offline set and the messages sent
check_offline_miners(known_offline, health_data) ==
    LET currently_offline == {d \in DOMAIN health_data : ~health_data[d].is_online}
        newly == {d \in currently_offline : d \notin known_offline}
        recovered == known_offline \ currently_offline
    IN  [offline_miners |-> currently_offline,
         sent |-> SendAll({Message("offline", d, NULL) : d \in newly})
                  (+) SendAll({Message("online", d, NULL) : d \in recovered})]

\* check_overheating without the `if device_id not in self.overheating_miners`
\* test: every overheating device is alerted at every check
check_overheating_NoHysteresis(known_overheating, summary) ==
    LET currently_overheating ==
            {d \in DOMAIN summary : /\ summary[d].latest # NoRow
                                    /\ summary[d].latest.asic_temp >= TempThreshold}
        cooled_down == known_overheating \ currently_overheating
    IN  [overheating_miners |-> currently_overheating,
         sent |-> SendAll({Message("overheating", d, summary[d].latest.asic_temp) :
                              d \in currently_overheating})
                  (+) SendAll({Message("normal", d, NULL) : d \in cooled_down})]

\* BitaxeBot.check_overheating: the new overheating set and the messages sent
check_overheating(known_overheating, summary) ==
    LET currently_overheating ==
            {d \in DOMAIN summary : /\ summary[d].latest # NoRow
                                    /\ summary[d].latest.asic_temp >= TempThreshold}
        newly == {d \in currently_overheating : d \notin known_overheating}
        cooled_down == known_overheating \ currently_overheating
    IN  [overheating_miners |-> currently_overheating,
         sent |-> SendAll({Message("overheating", d, summary[d].latest.asic_temp) : d \in newly})
                  (+) SendAll({Message("normal", d, NULL) : d \in cooled_down})]

\* the loop of check_highest_diff: max over the devices whose latest
\* sample has a truthy best_diff, starting from 0
RECURSIVE CurrentMaxDiff(_, _, _)
CurrentMaxDiff(summary, todo, current_max_diff) ==
    IF todo = {} THEN current_max_diff
    ELSE LET d == CHOOSE x \in todo : TRUE
             latest == summary[d].latest
             truthy == latest # NoRow /\ latest.best_diff # NULL /\ latest.best_diff # 0
         IN  CurrentMaxDiff(summary, todo \ {d},
                            IF truthy THEN Max2(current_max_diff, latest.best_diff)
                            ELSE current_max_diff)

\* check_highest_diff comparing with >= where the code has >
check_highest_diff_AtLeast(highest, summary) ==
    LET current_max_diff == CurrentMaxDiff(summary, DOMAIN summary, 0)
    IN  IF current_max_diff >= highest /\ current_max_diff > 0
        THEN [highest_diff_seen |-> current_max_diff,
              sent |-> SendAll({Message("record", "", current_max_diff)})]
        ELSE [highest_diff_seen |-> highest, sent |-> EmptyBag]

\* BitaxeBot.check_highest_diff: the new high-water mark and the messages sent.
\* Both texts of the message ("BLOCK FOUND" at or above 10^12, "New Highest
\* Difficulty" below) are the one kind "record": they differ in wording only.
check_highest_diff(highest, summary) ==
    LET current_max_diff == CurrentMaxDiff(summary, DOMAIN summary, 0)
    IN  IF current_max_diff > highest /\ current_max_diff > 0
        THEN [highest_diff_seen |-> current_max_diff,
              sent |-> SendAll({Message("record", "", current_max_diff)})]
        ELSE [highest_diff_seen |-> highest, sent |-> EmptyBag]

\* initialize_highest_diff never reading the store
initialize_highest_diff_Unseeded(highest) == highest

\* BitaxeBot.initialize_highest_diff: the seeded mark
initialize_highest_diff(highest) ==
    IF MaxBestDiff # NULL /\ MaxBestDiff # 0 THEN MaxBestDiff ELSE highest

\* DiscordConfig: each feature is "on" (enabled, with its channel_id and a
\* five-field schedule) or "off" (disabled, or enabled with a configuration
\* on_ready rejects with the logged ValueError: nothing is scheduled either way)
FeatureSettings == {"off", "on"}
Configs == [auto_report : FeatureSettings, weekly_report : FeatureSettings,
            alerts : FeatureSettings]

ZeroStreak == [d \in DeviceIds |-> 0]
NoStreakAlerts == [d \in DeviceIds |-> {}]

\* a constructor that carried the alert sets over from the previous process
BotConstructed_KeepsSets ==
    /\ bot' = "constructed"
    /\ jobs' = {}
    /\ scheduler_running' = FALSE
    /\ highest_diff_seen' = 0
    /\ sent' = EmptyBag
    /\ UNCHANGED <<offline_miners, overheating_miners>>

\* BitaxeBot.__init__: the tracker's state of a fresh process
BotConstructed ==
    /\ bot' = "constructed"
    /\ jobs' = {}
    /\ scheduler_running' = FALSE
    /\ offline_miners' = {}
    /\ overheating_miners' = {}
    /\ highest_diff_seen' = 0
    /\ sent' = EmptyBag

InitStore ==
    /\ now = 0
    /\ devices = {}
    /\ latest_row = [d \in DeviceIds |-> NoRow]
    /\ max_best_diff = NULL

InitBot ==
    /\ config \in Configs
    /\ bot = "constructed"
    /\ jobs = {}
    /\ scheduler_running = FALSE
    /\ offline_miners = {}
    /\ overheating_miners = {}
    /\ highest_diff_seen = 0
    /\ sent = EmptyBag
    /\ checksRun = 0
    /\ preOffline = {}
    /\ preOverheating = {}
    /\ streak = ZeroStreak
    /\ streakAlerts = NoStreakAlerts
    /\ maxAtStart = NULL

\* time passes
Tick ==
    /\ now + TickMinutes <= MaxNow
    /\ now' = now + TickMinutes
    /\ sent' = EmptyBag
    /\ UNCHANGED <<devices, latest_row, max_best_diff, trackerVars>>

\* the poller process stores one sample of device d (BitaxeLogger.store_metrics);
\* its timestamps strictly increase per device
PollerStores(d, temp, diff) ==
    /\ latest_row[d] = NoRow \/ latest_row[d].timestamp < now
    /\ insert_metric(d, temp, diff)
    /\ sent' = EmptyBag
    /\ UNCHANGED <<now, trackerVars>>

\* BitaxeBot.on_ready
OnReady ==
    /\ bot = "constructed"
    /\ bot' = "ready"
    /\ LET auto == config.auto_report = "on"
           weekly == config.weekly_report = "on"
           alerts == config.alerts = "on"
       IN  /\ jobs' = (IF auto THEN {"auto_report"} ELSE {})
                      \cup (IF weekly THEN {"weekly_report"} ELSE {})
                      \cup (IF alerts THEN {"alert_checks"} ELSE {})
           \* schedule_auto_report is the one place that starts the scheduler
           /\ scheduler_running' = auto
           /\ highest_diff_seen' = IF alerts THEN initialize_highest_diff(highest_diff_seen)
                                   ELSE highest_diff_seen
    /\ sent' = EmptyBag
    /\ UNCHANGED <<config, offline_miners, overheating_miners, storeVars>>

AlertJobDue ==
    /\ bot = "ready"
    /\ scheduler_running
    /\ "alert_checks" \in jobs

\* BitaxeBot.check_alerts with the alert channel found: the three checks in
\* order, every channel.send completing
CheckAlerts ==
    /\ AlertJobDue
    /\ LET health_data == get_all_device_health(DeviceIds, OfflineThresholdMinutes)
           summary == get_all_devices_summary
           off == check_offline_miners(offline_miners, health_data)
           hot == check_overheating(overheating_miners, summary)
           rec == check_highest_diff(highest_diff_seen, summary)
       IN  /\ offline_miners' = off.offline_miners
           /\ overheating_miners' = hot.overheating_miners
           /\ highest_diff_seen' = rec.highest_diff_seen
           /\ sent' = off.sent (+) hot.sent (+) rec.sent
    /\ UNCHANGED <<config, bot, jobs, scheduler_running, storeVars>>

\* BitaxeBot.check_alerts when get_channel returns None: logged, nothing checked
CheckAlertsNoChannel ==
    /\ AlertJobDue
    /\ sent' = EmptyBag
    /\ UNCHANGED <<trackerVars, storeVars>>

\* the bot process is stopped and started again: a new BitaxeBot
Restart ==
    /\ bot = "ready"
    /\ BotConstructed
    /\ UNCHANGED <<config, storeVars>>

(***************************************************************************)
(* History variables of the tracker.  They record what happened and are    *)
(* read by no action of the program.                                       *)
(***************************************************************************)
restartHist == <<checksRun, preOffline, preOverheating, maxAtStart>>
streakHist == <<streak, streakAlerts>>

\* a device with no sample within the offline threshold of now
IsOfflineNow(d) ==
    ~(latest_row[d] # NoRow /\ now - latest_row[d].timestamp <= OfflineThresholdMinutes)

\* a check_offline_miners run: the restart history
ObserveCheck ==
    /\ checksRun' = Min2(checksRun + 1, 2)
    /\ preOffline' = IF checksRun = 0 THEN preOffline ELSE {}
    /\ preOverheating' = IF checksRun = 0 THEN preOverheating ELSE {}
    /\ UNCHANGED maxAtStart

ObserveOnReady ==
    /\ maxAtStart' = MaxBestDiff
    /\ UNCHANGED <<checksRun, preOffline, preOverheating>>

ObserveRestart ==
    /\ checksRun' = 0
    /\ preOffline' = offline_miners
    /\ preOverheating' = overheating_miners
    /\ maxAtStart' = NULL

\* a check_offline_miners run: per device, the length of its run of
\* consecutive offline checks (capped at MaxStreak) and the positions in the
\* run at which an offline alert for it went out
ObserveStreak ==
    /\ streak' = [d \in DeviceIds |->
                    IF IsOfflineNow(d) THEN Min2(streak[d] + 1, MaxStreak) ELSE 0]
    /\ streakAlerts' = [d \in DeviceIds |->
                    IF ~IsOfflineNow(d) THEN {}
                    ELSE streakAlerts[d] \cup
                         (IF BagIn(Message("offline", d, NULL), sent')
                          THEN {Min2(streak[d] + 1, MaxStreak)} ELSE {})]

(***************************************************************************)
(* The poller daemon: src/src/logger.py                                    *)
(***************************************************************************)
\* config["devices"], in list order
PollerDevices == <<[name |-> "d1", enabled |-> TRUE],
                   [name |-> "d2", enabled |-> TRUE],
                   [name |-> "d3", enabled |-> FALSE]>>
PollerNames == {PollerDevices[i].name : i \in DOMAIN PollerDevices}

IsEnabled(dev) == dev.enabled

\* poll_all_devices, first loop: one poll_device coroutine object per
\* enabled device, created and not yet started
Tasks == LET en == SelectSeq(PollerDevices, IsEnabled)
         IN  [i \in DOMAIN en |-> en[i].name]

\* what a device's HTTP request can end in
FetchOutcomes == {"ok", "timeout", "refused", "malformed"}

\* BitaxeLogger.poll_device: the SystemInfo on success; every Exception is
\* caught, logged and turned into None
poll_device(outcome) == IF outcome = "ok" THEN "info" ELSE "None"

\* the second loop without its `if info:` test
AppendResult_Always(res, name, info) == Append(res, name)

\* poll_all_devices, second loop body after the await: `if info: results.append`
AppendResult(res, name, info) == IF info # "None" THEN Append(res, name) ELSE res

\* a loop that gave up on the first exception
AfterException_Exits == "stopped"

\* run(): `except Exception` logs, sleeps 10 seconds and goes back to the loop test
AfterException == "cooldown"

InitPoller ==
    /\ running = FALSE
    /\ ppc = "init"
    /\ poll_count = 0
    /\ fetch = [d \in PollerNames |-> "none"]
    /\ awaited = 0
    /\ results = <<>>
    /\ processed = 0
    /\ inserted = {}
    /\ store_failed = {}
    /\ errors_logged = 0

\* BitaxeLogger.run, up to the loop test
Run ==
    /\ ppc = "init"
    /\ running' = TRUE
    /\ ppc' = "loop"
    /\ UNCHANGED <<poll_count, fetch, awaited, results, processed, inserted,
                   store_failed, errors_logged>>

\* `while self.running:` true; poll_all_devices builds its task list
StartCycle ==
    /\ ppc = "loop"
    /\ running
    /\ poll_count < MaxCycles
    /\ poll_count' = poll_count + 1
    /\ fetch' = [d \in PollerNames |->
                    IF \E i \in DOMAIN Tasks : Tasks[i] = d THEN "created" ELSE "none"]
    /\ awaited' = 0
    /\ results' = <<>>
    /\ processed' = 0
    /\ store_failed' = {}
    /\ ppc' = IF Len(Tasks) = 0 THEN "process" ELSE "poll"
    /\ UNCHANGED <<running, inserted, errors_logged>>

\* `while self.running:` false
LoopExit ==
    /\ ppc = "loop"
    /\ ~running
    /\ ppc' = "stopped"
    /\ UNCHANGED <<running, poll_count, fetch, awaited, results, processed,
                   inserted, store_failed, errors_logged>>

\* `info = await task`: the awaited coroutine starts running; its request
\* goes out
AwaitTask ==
    /\ ppc = "poll"
    /\ awaited < Len(Tasks)
    /\ fetch[Tasks[awaited + 1]] = "created"
    /\ fetch' = [fetch EXCEPT ![Tasks[awaited + 1]] = "inflight"]
    /\ UNCHANGED <<running, ppc, poll_count, awaited, results, processed,
                   inserted, store_failed, errors_logged>>

\* the awaited poll_device returns; after the last one poll_all_devices returns
FetchReturns(outcome) ==
    /\ ppc = "poll"
    /\ awaited < Len(Tasks)
    /\ fetch[Tasks[awaited + 1]] = "inflight"
    /\ fetch' = [fetch EXCEPT ![Tasks[awaited + 1]] = outcome]
    /\ results' = AppendResult(results, Tasks[awaited + 1], poll_device(outcome))
    /\ awaited' = awaited + 1
    /\ ppc' = IF awaited + 1 = Len(Tasks) THEN "process" ELSE "poll"
    /\ UNCHANGED <<running, poll_count, processed, inserted, store_failed, errors_logged>>

\* what handling one result in run() can end in: all three calls return,
\* store_metrics raises, or store_metrics returns and check_safety_thresholds
\* or log_status raises
ProcessOutcomes == {"ok", "store_raises", "status_raises"}

\* run(): one iteration of `for device_name, info in results`
ProcessResult(outcome) ==
    /\ ppc = "process"
    /\ processed < Len(results)
    /\ LET d == results[processed + 1]
       IN  /\ inserted' = IF outcome = "store_raises" THEN inserted
                          ELSE inserted \cup {<<poll_count, d>>}
           /\ store_failed' = IF outcome = "store_raises" THEN store_failed \cup {d}
                              ELSE store_failed
    /\ processed' = IF outcome = "ok" THEN processed + 1 ELSE processed
    /\ errors_logged' = IF outcome = "ok" THEN errors_logged ELSE errors_logged + 1
    /\ ppc' = IF outcome = "ok" THEN "process" ELSE AfterException
    /\ UNCHANGED <<running, poll_count, fetch, awaited, results>>

\* run(): the for loop is over; `await asyncio.sleep(self.poll_interval)` begins
EndProcessing ==
    /\ ppc = "process"
    /\ processed = Len(results)
    /\ ppc' = "sleep"
    /\ UNCHANGED <<running, poll_count, fetch, awaited, results, processed,
                   inserted, store_failed, errors_logged>>

\* the poll-interval sleep ends
WakeUp ==
    /\ ppc = "sleep"
    /\ ppc' = "loop"
    /\ UNCHANGED <<running, poll_count, fetch, awaited, results, processed,
                   inserted, store_failed, errors_logged>>

\* the 10-second sleep of the exception handler ends
CooldownOver ==
    /\ ppc = "cooldown"
    /\ ppc' = "loop"
    /\ UNCHANGED <<running, poll_count, fetch, awaited, results, processed,
                   inserted, store_failed, errors_logged>>

\* BitaxeLogger.stop, called from outside the loop while run() is suspended
Stop ==
    /\ ppc \in {"poll", "sleep", "cooldown"}
    /\ running
    /\ running' = FALSE
    /\ UNCHANGED <<ppc, poll_count, fetch, awaited, results, processed,
                   inserted, store_failed, errors_logged>>

\* KeyboardInterrupt while run() is inside its loop: `break`, or out of run()
Interrupt ==
    /\ ppc \in {"poll", "process", "sleep", "cooldown"}
    /\ ppc' = "interrupted"
    /\ UNCHANGED <<running, poll_count, fetch, awaited, results, processed,
                   inserted, store_failed, errors_logged>>

(***************************************************************************)
(* The entry point: main() of src/main/run_logger.py, with Database.close  *)
(* of src/src/database.py and BitaxeLogger.get_stats of src/src/logger.py  *)
(***************************************************************************)
\* db = Database(db_path); bitaxe_logger = BitaxeLogger(config, db); main() is
\* about to await bitaxe_logger.run()
InitMain ==
    /\ mpc = "try"
    /\ conn = "open"
    /\ wal = "pending"
    /\ store_calls = {}

\* `await bitaxe_logger.run()` is over: run() returned after its loop test
\* failed or after `break`, or the interrupt came out of it and main() logged
\* "Shutdown requested by user"; `finally` begins
RunEnds ==
    /\ mpc = "try"
    /\ ppc \in {"stopped", "interrupted"}
    /\ mpc' = "finally"
    /\ UNCHANGED <<conn, wal, store_calls>>

\* an exception out of run() before its loop (the lines ahead of `while` are
\* outside the try): `except Exception` logs "Fatal error" and calls
\* sys.exit(1), whose SystemExit still runs `finally`
RunRaises ==
    /\ mpc = "try"
    /\ ppc = "init"
    /\ ppc' = "failed"
    /\ mpc' = "fatal"
    /\ UNCHANGED <<conn, wal, store_calls>>
    /\ UNCHANGED <<running, poll_count, fetch, awaited, results, processed,
                   inserted, store_failed, errors_logged>>

\* what PRAGMA wal_checkpoint(TRUNCATE) can end in
CheckpointOutcomes == {"ok", "raises"}

\* Database.close: the checkpoint, its Exception caught and logged, then
\* self.conn.close()
close(outcome) ==
    /\ wal' = IF outcome = "ok" THEN "checkpointed" ELSE "checkpoint_failed"
    /\ conn' = "closed"

\* main(), `finally`: logger.info("Closing database..."); db.close()
FinallyCloses(outcome) ==
    /\ mpc \in {"finally", "fatal"}
    /\ close(outcome)
    /\ mpc' = "closed"
    /\ UNCHANGED store_calls

\* the Store operations BitaxeLogger.get_stats issues, in order: the total
\* count, then the count and the latest metric of each enabled device
get_stats_calls ==
    <<"get_metric_count">> \o
    [k \in 1..(2 * Len(Tasks)) |->
        IF k % 2 = 1 THEN "get_metric_count" ELSE "get_latest_metric"]

\* main(), `finally` after db.close(): stats = bitaxe_logger.get_stats().  A
\* cursor of a closed connection raises sqlite3.ProgrammingError at the first
\* operation, which leaves main(); on an open connection all are answered and
\* the summary is printed
GetStats ==
    /\ mpc = "closed"
    /\ IF conn = "closed"
       THEN /\ store_calls' = store_calls \cup {[op |-> get_stats_calls[1], conn |-> conn]}
            /\ mpc' = "raised"
       ELSE /\ store_calls' = store_calls \cup
                    {[op |-> get_stats_calls[k], conn |-> conn] : k \in DOMAIN get_stats_calls}
            /\ mpc' = "summary"
    /\ UNCHANGED <<conn, wal>>

(***************************************************************************)
(* get_or_create_config under concurrent writers: src/src/database.py      *)
(***************************************************************************)
\* processes holding a connection to the same database file
Writers == {"w1", "w2"}
\* the (frequency, core_voltage) pairs the devices report
Pairs == {<<600, 1200>>, <<625, 1250>>}

ConfigRowsOf(pair) ==
    {r \in clock_configs : r.frequency = pair[1] /\ r.core_voltage = pair[2]}

InitConfig ==
    /\ clock_configs = {}
    /\ next_id = 1
    /\ wpc = [w \in Writers |-> "idle"]
    /\ wargs = [w \in Writers |-> <<NULL, NULL>>]
    /\ wret = [w \in Writers |-> NULL]
    /\ wcalls = [w \in Writers |-> 0]

\* a writer calls get_or_create_config(frequency, core_voltage)
Call(w, pair) ==
    /\ wpc[w] \in {"idle", "returned", "raised"}
    /\ wcalls[w] < MaxCalls
    /\ wcalls' = [wcalls EXCEPT ![w] = @ + 1]
    /\ wargs' = [wargs EXCEPT ![w] = pair]
    /\ wret' = [wret EXCEPT ![w] = NULL]
    /\ wpc' = [wpc EXCEPT ![w] = "select"]
    /\ UNCHANGED <<clock_configs, next_id>>

\* SELECT id FROM clock_configs WHERE frequency = ? AND core_voltage = ?
\* and `if row: return row[0]`
SelectConfig(w) ==
    /\ wpc[w] = "select"
    /\ IF ConfigRowsOf(wargs[w]) # {}
       THEN /\ wret' = [wret EXCEPT ![w] = (CHOOSE r \in ConfigRowsOf(wargs[w]) : TRUE).id]
            /\ wpc' = [wpc EXCEPT ![w] = "returned"]
       ELSE /\ wpc' = [wpc EXCEPT ![w] = "insert"]
            /\ UNCHANGED wret
    /\ UNCHANGED <<clock_configs, next_id, wargs, wcalls>>

\* INSERT INTO clock_configs ... and commit: UNIQUE(frequency, core_voltage)
\* makes the statement raise sqlite3.IntegrityError when the pair is present,
\* and nothing in get_or_create_config catches it
InsertConfig(w) ==
    /\ wpc[w] = "insert"
    /\ IF ConfigRowsOf(wargs[w]) # {}
       THEN /\ wpc' = [wpc EXCEPT ![w] = "raised"]
            /\ UNCHANGED <<clock_configs, next_id, wret>>
       ELSE /\ clock_configs' = clock_configs \cup
                    {[id |-> next_id, frequency |-> wargs[w][1], core_voltage |-> wargs[w][2]]}
            /\ next_id' = next_id + 1
            /\ wret' = [wret EXCEPT ![w] = next_id]
            /\ wpc' = [wpc EXCEPT ![w] = "returned"]
    /\ UNCHANGED <<wargs, wcalls>>

(***************************************************************************)
(* The performance_metrics table and the store's operations on it, as the  *)
(* poller issues them from store_metrics: src/src/database.py              *)
(***************************************************************************)
\* one row of performance_metrics (the columns the queries read); id is the
\* AUTOINCREMENT key, timestamps are in minutes
Row(id, d, ts, cfg, hashrate, temp, uptime) ==
    [id |-> id, device_id |-> d, timestamp |-> ts, config_id |-> cfg,
     hashrate |-> hashrate, asic_temp |-> temp, uptime |-> uptime]

\* Python's None as a query result
None == [kind |-> "None"]
NoReply == [op |-> "none", args |-> <<>>, value |-> None]

InitTable ==
    /\ performance_metrics = <<>>
    /\ reply = NoReply

\* the rows of a device, in rowid order
RowsOf(device_id) == SelectSeq(performance_metrics, LAMBDA r : r.device_id = device_id)

\* Database.register_device: INSERT INTO devices ... ON CONFLICT(id) DO UPDATE
register_device(d) ==
    /\ devices' = devices \cup {d}
    /\ reply' = NoReply
    /\ UNCHANGED <<performance_metrics, clock_configs, next_id>>

\* Database.get_or_create_config called by the only writer: SELECT, then
\* INSERT when the pair has no row
get_or_create_config(pair) ==
    /\ IF ConfigRowsOf(pair) # {}
       THEN /\ reply' = [op |-> "get_or_create_config", args |-> pair,
                         value |-> [kind |-> "id",
                                    id |-> (CHOOSE r \in ConfigRowsOf(pair) : TRUE).id]]
            /\ UNCHANGED <<clock_configs, next_id>>
       ELSE /\ clock_configs' = clock_configs \cup
                    {[id |-> next_id, frequency |-> pair[1], core_voltage |-> pair[2]]}
            /\ next_id' = next_id + 1
            /\ reply' = [op |-> "get_or_create_config", args |-> pair,
                         value |-> [kind |-> "id", id |-> next_id]]
    /\ UNCHANGED <<performance_metrics, devices>>

\* a mutant of insert_metric_row: INSERT OR REPLACE keyed by the device
insert_metric_row_Upsert(rows, d, ts, cfg, hashrate, temp, uptime) ==
    Append(SelectSeq(rows, LAMBDA r : r.device_id # d),
           Row(Len(rows) + 1, d, ts, cfg, hashrate, temp, uptime))

\* Database.insert_metric on the table: INSERT INTO performance_metrics (...)
\* VALUES (...), the id taken from AUTOINCREMENT
insert_metric_row(rows, d, ts, cfg, hashrate, temp, uptime) ==
    Append(rows, Row(Len(rows) + 1, d, ts, cfg, hashrate, temp, uptime))

\* BitaxeLogger.store_metrics reaching db.insert_metric(metric): the device
\* was registered and config_id is what get_or_create_config just returned
InsertMetric(d, ts, hashrate, temp, uptime) ==
    /\ d \in devices
    /\ reply.op = "get_or_create_config"
    /\ performance_metrics' =
          insert_metric_row(performance_metrics, d, ts, reply.value.id,
                            hashrate, temp, uptime)
    /\ reply' = [op |-> "insert_metric", args |-> <<>>, value |-> None]
    /\ UNCHANGED <<devices, clock_configs, next_id>>

\* insert_metric raising (sqlite3.OperationalError: database is locked): the
\* statement has no effect
InsertMetricRaises ==
    /\ reply.op = "get_or_create_config"
    /\ reply' = [op |-> "insert_metric", args |-> <<>>, value |-> [kind |-> "raised"]]
    /\ UNCHANGED <<performance_metrics, devices, clock_configs, next_id>>

\* pm JOIN clock_configs cc ON pm.config_id = cc.id WHERE pm.device_id = ?
JoinedRowsOf(device_id) ==
    {[kind |-> "row", row |-> performance_metrics[i],
      frequency |-> c.frequency, core_voltage |-> c.core_voltage] :
        <<i, c>> \in {ic \in (DOMAIN performance_metrics) \X clock_configs :
                        /\ performance_metrics[ic[1]].device_id = device_id
                        /\ performance_metrics[ic[1]].config_id = ic[2].id}}

\* a mutant of get_latest_metric_sql: ORDER BY pm.id DESC
get_latest_metric_sql_ById(device_id) ==
    LET joined == JoinedRowsOf(device_id)
    IN  IF joined = {} THEN {None}
        ELSE {j \in joined : \A k \in joined : k.row.id <= j.row.id}

\* Database.get_latest_metric on the table: ORDER BY pm.timestamp DESC LIMIT 1;
\* among rows of equal timestamp SQLite may return any, so this is the set of
\* the results the call can have
get_latest_metric_sql(device_id) ==
    LET joined == JoinedRowsOf(device_id)
    IN  IF joined = {} THEN {None}
        ELSE {j \in joined : \A k \in joined : k.row.timestamp <= j.row.timestamp}

\* a caller asks for the latest metric of a device
GetLatestMetric(device_id) ==
    /\ \E v \in get_latest_metric_sql(device_id) :
          reply' = [op |-> "get_latest_metric", args |-> <<device_id>>, value |-> v]
    /\ UNCHANGED <<performance_metrics, devices, clock_configs, next_id>>

\* BitaxeLogger.store_metrics writing one sample at the current time, seen in
\* the table and in what the latest-row query returns
StoreSample(d, temp) ==
    /\ InsertMetric(d, now, 500, temp, now)
    /\ insert_metric(d, temp, NULL)

\* a caller asks for the health of a device; the reply keeps the time of the
\* call
GetDeviceHealthStatus(device_id, minutes_threshold) ==
    /\ reply' = [op |-> "get_device_health_status",
                 args |-> <<device_id, minutes_threshold, now>>,
                 value |-> [kind |-> "health"] @@
                           get_device_health_status(device_id, minutes_threshold)]
    /\ UNCHANGED <<performance_metrics, devices, clock_configs, next_id>>

\* a caller asks for the health of all devices
GetAllDeviceHealth(device_ids, minutes_threshold) ==
    /\ reply' = [op |-> "get_all_device_health",
                 args |-> <<device_ids, minutes_threshold, now>>,
                 value |-> [kind |-> "health_map",
                            map |-> get_all_device_health(device_ids, minutes_threshold)]]
    /\ UNCHANGED <<performance_metrics, devices, clock_configs, next_id>>

(***************************************************************************)
(* Difficulty parsing: SystemInfo.parse_difficulty, src/main/src/models.py *)
(***************************************************************************)
\* a str as the sequence of its characters; an int or float as digits * 10^exp
Str(chars) == [kind |-> "str", chars |-> chars]
Num(digits, exp) == [kind |-> "num", digits |-> digits, exp |-> exp]

\* a float result, digits * 10^exp in lowest terms of ten
RECURSIVE Float(_, _)
Float(digits, exp) ==
    IF digits = 0 THEN [kind |-> "float", digits |-> 0, exp |-> 0]
    ELSE IF digits % 10 = 0 THEN Float(digits \div 10, exp + 1)
    ELSE [kind |-> "float", digits |-> digits, exp |-> exp]

ValueError == [kind |-> "ValueError"]

DigitChars == {"0", "1", "2", "3", "4", "5", "6", "7", "8", "9"}
DigitVal(c) == CASE c = "0" -> 0 [] c = "1" -> 1 [] c = "2" -> 2 [] c = "3" -> 3
                 [] c = "4" -> 4 [] c = "5" -> 5 [] c = "6" -> 6 [] c = "7" -> 7
                 [] c = "8" -> 8 [] c = "9" -> 9

\* str.strip()
RECURSIVE strip(_)
strip(v) ==
    IF v = <<>> THEN v
    ELSE IF Head(v) = " " THEN strip(Tail(v))
    ELSE IF v[Len(v)] = " " THEN strip(SubSeq(v, 1, Len(v) - 1))
    ELSE v

\* str.upper()
upper(v) == [i \in DOMAIN v |-> CASE v[i] = "k" -> "K" [] v[i] = "m" -> "M"
                                   [] v[i] = "g" -> "G" [] v[i] = "t" -> "T"
                                   [] v[i] = "x" -> "X" [] OTHER -> v[i]]

endswith(v, c) == v # <<>> /\ v[Len(v)] = c

\* float(str) on digits and a point: the digits read left to right, the
\* exponent lowered by one for each digit after the point; ValueError for an
\* empty string, a second point, no digit at all or any other character
RECURSIVE ReadDecimal(_, _, _, _, _)
ReadDecimal(v, i, digits, exp, seen_point) ==
    IF i > Len(v) THEN Float(digits, exp)
    ELSE IF v[i] = "." THEN
            IF seen_point THEN ValueError
            ELSE ReadDecimal(v, i + 1, digits, exp, TRUE)
    ELSE IF v[i] \in DigitChars THEN
            ReadDecimal(v, i + 1, 10 * digits + DigitVal(v[i]),
                        IF seen_point THEN exp - 1 ELSE exp, seen_point)
    ELSE ValueError

float(v) ==
    LET t == strip(v)
    IN  IF \A i \in DOMAIN t : t[i] \notin DigitChars THEN ValueError
        ELSE ReadDecimal(t, 1, 0, 0, FALSE)

\* a mutant of parse_difficulty: no try/except around float()
parse_difficulty_Uncaught(v) ==
    IF v = None \/ v = Str(<<>>) THEN None
    ELSE IF v.kind \in {"num", "float"} THEN Float(v.digits, v.exp)
    ELSE IF v.kind = "str" THEN
        LET u == upper(strip(v.chars))
            power == IF endswith(u, "K") THEN 3
                     ELSE IF endswith(u, "M") THEN 6
                     ELSE IF endswith(u, "G") THEN 9
                     ELSE IF endswith(u, "T") THEN 12
                     ELSE 0
            number == float(IF power > 0 THEN SubSeq(u, 1, Len(u) - 1) ELSE u)
        IN  IF number = ValueError THEN [kind |-> "raised"]
            ELSE Float(number.digits, number.exp + power)
    ELSE None

\* SystemInfo.parse_difficulty
parse_difficulty(v) ==
    IF v = None \/ v = Str(<<>>) THEN None
    ELSE IF v.kind \in {"num", "float"} THEN Float(v.digits, v.exp)
    ELSE IF v.kind = "str" THEN
        LET u == upper(strip(v.chars))
            power == IF endswith(u, "K") THEN 3
                     ELSE IF endswith(u, "M") THEN 6
                     ELSE IF endswith(u, "G") THEN 9
                     ELSE IF endswith(u, "T") THEN 12
                     ELSE 0
            number == float(IF power > 0 THEN SubSeq(u, 1, Len(u) - 1) ELSE u)
        IN  IF number = ValueError THEN None
            ELSE Float(number.digits, number.exp + power)
    ELSE None

\* a field of the device's JSON reaches the model, not yet validated
Field(v) == [op |-> "field", args |-> <<v>>, value |-> None]

\* the validator runs on the field
ParseDifficulty ==
    /\ reply.op = "field"
    /\ reply' = [op |-> "parse_difficulty", args |-> reply.args,
                 value |-> parse_difficulty(reply.args[1])]
    /\ UNCHANGED <<performance_metrics, devices, clock_configs, next_id>>

\* the validator runs on a value it returned
ParseAgain ==
    /\ reply.op = "parse_difficulty"
    /\ reply' = [op |-> "parse_again", args |-> <<reply.args[1], reply.value>>,
                 value |-> parse_difficulty(reply.value)]
    /\ UNCHANGED <<performance_metrics, devices, clock_configs, next_id>>

(***************************************************************************)
(* The chart cache: src/src/discord/chart_generator.py                     *)
(***************************************************************************)
\* a device id as the pieces between its underscores, and the device lists
\* the charts are asked for
IdA == <<"a">>
IdB == <<"b">>
IdAB == <<"a", "b">>
DeviceLists == {<<IdA, IdB>>, <<IdB, IdA>>, <<IdAB>>}

\* str < str for ids of one-letter pieces: "_" sorts before the letters, so
\* the order is that of the pieces, a prefix first
RECURSIVE IdLess(_, _)
IdLess(x, y) ==
    IF x = <<>> THEN y # <<>>
    ELSE IF y = <<>> THEN FALSE
    ELSE IF Head(x) # Head(y) THEN Head(x) = "a"
    ELSE IdLess(Tail(x), Tail(y))

\* sorted(device_ids)
RECURSIVE sorted_ids(_)
sorted_ids(ids) ==
    IF ids = <<>> THEN <<>>
    ELSE LET m == CHOOSE i \in DOMAIN ids : \A j \in DOMAIN ids : ~IdLess(ids[j], ids[i])
         IN  <<ids[m]>> \o sorted_ids(SelectSeq(ids, LAMBDA x : x # ids[m]))

\* '_'.join(ids): the pieces of the text between underscores
RECURSIVE join(_)
join(ids) == IF ids = <<>> THEN <<>> ELSE Head(ids) \o join(Tail(ids))

\* f"{chart}_{hours}h_{'_'.join(sorted(device_ids))}"
cache_key(chart, hours, device_ids) == <<chart, hours>> \o join(sorted_ids(device_ids))

\* ChartGenerator.__init__: an empty ChartCache
InitChart ==
    /\ cache = << >>
    /\ generated = 0

\* the PNG of the n-th figure rendered
Bytes(n) == [kind |-> "bytes", figure |-> n]

\* a mutant of ChartCache_get: age <= ttl
ChartCache_get_AtTtl(c, key, t) ==
    IF key \in DOMAIN c
    THEN IF (t - c[key].timestamp) * 60 <= cache_ttl
         THEN [data |-> c[key].data, cache |-> c]
         ELSE [data |-> None, cache |-> [k \in (DOMAIN c) \ {key} |-> c[k]]]
    ELSE [data |-> None, cache |-> c]

\* ChartCache.get at time t (minutes): the bytes or None, and the cache after
\* the call
ChartCache_get(c, key, t) ==
    IF key \in DOMAIN c
    THEN IF (t - c[key].timestamp) * 60 < cache_ttl
         THEN [data |-> c[key].data, cache |-> c]
         ELSE [data |-> None, cache |-> [k \in (DOMAIN c) \ {key} |-> c[k]]]
    ELSE [data |-> None, cache |-> c]

\* ChartCache.set
ChartCache_set(c, key, data, t) ==
    [k \in (DOMAIN c) \cup {key} |->
        IF k = key THEN [data |-> data, timestamp |-> t] ELSE c[k]]

\* generate_swarm_hashrate_chart and generate_miner_detail_chart: the cached
\* bytes when the lookup hits, otherwise a figure is rendered, cached and
\* returned
GenerateChart(chart, hours, device_ids) ==
    LET key == cache_key(chart, hours, device_ids)
        cached == ChartCache_get(cache, key, now)
    IN  IF cached.data # None
        THEN /\ reply' = [op |-> "generate_chart",
                          args |-> <<chart, hours, device_ids, now>>,
                          value |-> cached.data]
             /\ cache' = cached.cache
             /\ UNCHANGED generated
        ELSE /\ generated < MaxCharts
             /\ generated' = generated + 1
             /\ cache' = ChartCache_set(cached.cache, key, Bytes(generated + 1), now)
             /\ reply' = [op |-> "generate_chart",
                          args |-> <<chart, hours, device_ids, now>>,
                          value |-> Bytes(generated + 1)]

(***************************************************************************)
(* Device control and profiles: src/api_server.py                          *)
(***************************************************************************)
\* the defaults of CONTROL_LIMITS
CONTROL_LIMITS ==
    [min_frequency |-> 400, max_frequency |-> 650,
     min_voltage |-> 1000, max_voltage |-> 1300,
     min_fan_speed |-> 0, max_fan_speed |-> 100]

\* the devices of the server's config.yaml
ApiDevices == {"d1"}
\* get_device_ip: the ip of a configured device, None for any other
get_device_ip(device_id) == IF device_id \in ApiDevices THEN [kind |-> "ip"] ELSE None

\* jsonify(...), status
Http(status) == [kind |-> "http", status |-> status]

\* dict.get(key, default)
Get(data, key, default) == IF key \in DOMAIN data THEN data[key] ELSE default

\* no profiles.json yet
InitProfiles ==
    /\ profiles = [d \in ApiDevices |-> <<>>]
    /\ patches = <<>>

\* _validate_profile_settings: (cleaned, error)
_validate_profile_settings(data) ==
    IF \E key \in {"frequency", "core_voltage", "fan_mode"} : key \notin DOMAIN data
    THEN [cleaned |-> None, error |-> TRUE]
    ELSE IF ~(CONTROL_LIMITS.min_frequency <= data.frequency
              /\ data.frequency <= CONTROL_LIMITS.max_frequency)
    THEN [cleaned |-> None, error |-> TRUE]
    ELSE IF ~(CONTROL_LIMITS.min_voltage <= data.core_voltage
              /\ data.core_voltage <= CONTROL_LIMITS.max_voltage)
    THEN [cleaned |-> None, error |-> TRUE]
    ELSE IF data.fan_mode \notin {"auto", "manual"}
    THEN [cleaned |-> None, error |-> TRUE]
    ELSE [cleaned |-> [frequency |-> data.frequency,
                       core_voltage |-> data.core_voltage,
                       fan_mode |-> data.fan_mode,
                       fan_speed |-> Get(data, "fan_speed", 100),
                       temp_target |-> Get(data, "temp_target", 65),
                       min_fan_speed |-> Get(data, "min_fan_speed", 0)],
          error |-> FALSE]

\* PROFILE_NAME_RE on the names the requests carry
ValidProfileName(name) == name \in {"eco", "turbo"}

\* POST /api/profiles/<device_id> of an authorised client; name is the
\* 'name' of the body
save_profile(device_id, name, data) ==
    /\ patches' = <<>>
    /\ IF get_device_ip(device_id) = None
       THEN /\ reply' = [op |-> "save_profile", args |-> <<device_id, name>>, value |-> Http(404)]
            /\ UNCHANGED profiles
       ELSE IF ~ValidProfileName(name) \/ _validate_profile_settings(data).error
       THEN /\ reply' = [op |-> "save_profile", args |-> <<device_id, name>>, value |-> Http(400)]
            /\ UNCHANGED profiles
       ELSE LET cleaned == [name |-> name] @@ _validate_profile_settings(data).cleaned
                kept == SelectSeq(profiles[device_id], LAMBDA q : q.name # name)
            IN  /\ profiles' = [profiles EXCEPT ![device_id] = Append(kept, cleaned)]
                /\ reply' = [op |-> "save_profile", args |-> <<device_id, name>>,
                             value |-> Http(200)]

\* POST /api/profiles/<device_id>/<profile_name>/apply: the two PATCH
\* requests; nerdqaxe is what the firmware version of the device says, ok
\* whether every request was answered without error
apply_profile(device_id, profile_name, nerdqaxe, ok) ==
    /\ UNCHANGED profiles
    /\ IF get_device_ip(device_id) = None
          \/ \A i \in DOMAIN profiles[device_id] : profiles[device_id][i].name # profile_name
       THEN /\ patches' = <<>>
            /\ reply' = [op |-> "apply_profile", args |-> <<device_id, profile_name>>,
                         value |-> Http(404)]
       ELSE LET i == CHOOSE j \in DOMAIN profiles[device_id] :
                        /\ profiles[device_id][j].name = profile_name
                        /\ \A k \in 1..(j - 1) : profiles[device_id][k].name # profile_name
                profile == profiles[device_id][i]
                payload == IF profile.fan_mode = "auto"
                           THEN IF nerdqaxe
                                THEN [autofanspeed |-> 2, pidTargetTemp |-> profile.temp_target]
                                ELSE [autofanspeed |-> 1, temptarget |-> profile.temp_target,
                                      minFanSpeed |-> profile.min_fan_speed]
                           ELSE [autofanspeed |-> 0, manualFanSpeed |-> profile.fan_speed]
            IN  /\ patches' = <<[frequency |-> profile.frequency,
                                 coreVoltage |-> profile.core_voltage], payload>>
                /\ reply' = [op |-> "apply_profile", args |-> <<device_id, profile_name>>,
                             value |-> Http(IF ok THEN 200 ELSE 500)]

\* POST /api/control/<device_id>/frequency, /voltage and /fan: the value of
\* the one setting the request carries
set_device(setting, device_id, value, ok) ==
    LET lo == CASE setting = "frequency" -> CONTROL_LIMITS.min_frequency
                [] setting = "coreVoltage" -> CONTROL_LIMITS.min_voltage
                [] setting = "manualFanSpeed" -> CONTROL_LIMITS.min_fan_speed
        hi == CASE setting = "frequency" -> CONTROL_LIMITS.max_frequency
                [] setting = "coreVoltage" -> CONTROL_LIMITS.max_voltage
                [] setting = "manualFanSpeed" -> CONTROL_LIMITS.max_fan_speed
        status == IF get_device_ip(device_id) = None THEN 404
                  ELSE IF ~(lo <= value /\ value <= hi) THEN 400
                  ELSE IF ok THEN 200 ELSE 500
    IN  /\ UNCHANGED profiles
        /\ reply' = [op |-> "set_device", args |-> <<setting, device_id, value>>,
                     value |-> Http(status)]
        /\ patches' = IF status \in {404, 400} THEN <<>>
                      ELSE IF setting = "frequency" THEN <<[frequency |-> value]>>
                      ELSE IF setting = "coreVoltage" THEN <<[coreVoltage |-> value]>>
                      ELSE <<[autofanspeed |-> 0, manualFanSpeed |-> value]>>

\* POST /api/control/<device_id>/autofan with min_fan_speed in the body: a
\* value outside 0..100 is left out of the payload
enable_device_autofan(device_id, min_fan, nerdqaxe, ok) ==
    /\ UNCHANGED profiles
    /\ IF get_device_ip(device_id) = None
       THEN /\ patches' = <<>>
            /\ reply' = [op |-> "enable_device_autofan", args |-> <<device_id, min_fan>>,
                         value |-> Http(404)]
       ELSE /\ patches' = IF nerdqaxe THEN <<[autofanspeed |-> 2]>>
                          ELSE IF 0 <= min_fan /\ min_fan <= 100
                          THEN <<[autofanspeed |-> 1, minFanSpeed |-> min_fan]>>
                          ELSE <<[autofanspeed |-> 1]>>
            /\ reply' = [op |-> "enable_device_autofan", args |-> <<device_id, min_fan>>,
                         value |-> Http(IF ok THEN 200 ELSE 500)]

(***************************************************************************)
(* Session reconstruction: get_total_uptime in src/dashboard.py,           *)
(* src/api_server.py and src/main/dashboard.py                             *)
(***************************************************************************)
\* ORDER BY timestamp ASC (insertion sort; the rows of the specifications
\* that use it have distinct timestamps)
RECURSIVE InsertByTimestamp(_, _)
InsertByTimestamp(sorted, r) ==
    IF sorted = <<>> THEN <<r>>
    ELSE IF sorted[Len(sorted)].timestamp <= r.timestamp THEN Append(sorted, r)
    ELSE Append(InsertByTimestamp(SubSeq(sorted, 1, Len(sorted) - 1), r),
                sorted[Len(sorted)])

RECURSIVE OrderByTimestamp(_)
OrderByTimestamp(rows) ==
    IF rows = <<>> THEN <<>>
    ELSE InsertByTimestamp(OrderByTimestamp(SubSeq(rows, 1, Len(rows) - 1)), rows[Len(rows)])

\* SELECT uptime, timestamp FROM performance_metrics WHERE device_id = ?
\* ORDER BY timestamp ASC: the uptime column of the result
UptimeRows(device_id) ==
    LET rows == OrderByTimestamp(RowsOf(device_id))
    IN  [i \in DOMAIN rows |-> rows[i].uptime]

\* max(session_uptimes) for session_uptimes = rows[from .. to], not empty
MaxUptime(rows, from, to) ==
    CHOOSE m \in {rows[j] : j \in from..to} : \A j \in from..to : rows[j] <= m

\* x / 3600 as the fraction it is
Hours(seconds) == <<seconds, 3600>>

\* the state of the scan before the first row
ScanStart == [total_uptime |-> 0, prev_uptime |-> 0, session_start_idx |-> 1, restarts |-> {}]

\* src/dashboard.py, the loop of get_total_uptime from row i on; restarts
\* records the rows at which session_start_idx was moved
RECURSIVE Dashboard_scan(_, _, _)
Dashboard_scan(rows, i, st) ==
    IF i > Len(rows) THEN st
    ELSE LET uptime == rows[i]
             restart == uptime < st.prev_uptime /\ uptime < MAX_RESTART_UPTIME
         IN  Dashboard_scan(rows, i + 1,
               [total_uptime |-> IF restart /\ st.session_start_idx <= i - 1
                                 THEN st.total_uptime + MaxUptime(rows, st.session_start_idx, i - 1)
                                 ELSE st.total_uptime,
                prev_uptime |-> uptime,
                session_start_idx |-> IF restart THEN i ELSE st.session_start_idx,
                restarts |-> IF restart THEN st.restarts \cup {i} ELSE st.restarts])

\* a mutant of Dashboard_get_total_uptime: the just-closed segment counts
\* with its last sample instead of its maximum
Dashboard_get_total_uptime_LastOfSegment(rows) ==
    IF rows = <<>> THEN None
    ELSE LET st == Dashboard_scan(rows, 1, ScanStart)
             closed == {rows[i - 1] : i \in st.restarts}
             RECURSIVE Sum(_)
             Sum(S) == IF S = {} THEN 0 ELSE LET x == CHOOSE x \in S : TRUE IN x + Sum(S \ {x})
         IN  [kind |-> "uptime",
              session_hours |-> Hours(rows[Len(rows)]),
              total_hours |-> Hours(Sum(closed) + rows[Len(rows)]),
              restarts |-> st.restarts]

\* src/dashboard.py, BitaxeDashboard.get_total_uptime (local mode); restarts
\* is not a key of the dictionary returned: it is kept for the statements
\* about where the segments begin
Dashboard_get_total_uptime(rows) ==
    IF rows = <<>> THEN None
    ELSE LET current_uptime == rows[Len(rows)]
             st == Dashboard_scan(rows, 1, ScanStart)
         IN  [kind |-> "uptime",
              session_hours |-> Hours(current_uptime),
              total_hours |-> Hours(st.total_uptime + current_uptime),
              restarts |-> st.restarts]

\* src/api_server.py, the loop of get_total_uptime
RECURSIVE Api_scan(_, _, _)
Api_scan(rows, i, st) ==
    IF i > Len(rows) THEN st
    ELSE LET uptime == rows[i]
             restart == uptime < st.prev_uptime /\ uptime < MAX_RESTART_UPTIME
         IN  Api_scan(rows, i + 1,
               [total_uptime |-> IF restart /\ st.session_start_idx <= i - 1
                                 THEN st.total_uptime + MaxUptime(rows, st.session_start_idx, i - 1)
                                 ELSE st.total_uptime,
                prev_uptime |-> uptime,
                session_start_idx |-> IF restart THEN i ELSE st.session_start_idx,
                restarts |-> IF restart THEN st.restarts \cup {i} ELSE st.restarts])

\* a mutant of Api_get_total_uptime: the closed sessions are not added
Api_get_total_uptime_SessionOnly(rows) ==
    IF rows = <<>> THEN None
    ELSE [kind |-> "uptime",
          session_hours |-> Hours(rows[Len(rows)]),
          total_hours |-> Hours(rows[Len(rows)]),
          restarts |-> {}]

\* src/api_server.py, get_total_uptime: the JSON body of the answer
Api_get_total_uptime(rows) ==
    IF rows = <<>> THEN None
    ELSE LET current_uptime == rows[Len(rows)]
             st == Api_scan(rows, 1, ScanStart)
         IN  [kind |-> "uptime",
              session_hours |-> Hours(current_uptime),
              total_hours |-> Hours(st.total_uptime + current_uptime),
              restarts |-> st.restarts]

\* src/main/dashboard.py, the loop of get_total_uptime: every decrease of
\* uptime is taken for a restart
RECURSIVE MainDashboard_scan(_, _, _)
MainDashboard_scan(rows, i, st) ==
    IF i > Len(rows) THEN st
    ELSE LET uptime == rows[i]
             restart == uptime < st.prev_uptime
         IN  MainDashboard_scan(rows, i + 1,
               [total_uptime |-> IF restart /\ st.session_start_idx <= i - 1
                                 THEN st.total_uptime + MaxUptime(rows, st.session_start_idx, i - 1)
                                 ELSE st.total_uptime,
                prev_uptime |-> uptime,
                session_start_idx |-> IF restart THEN i ELSE st.session_start_idx,
                restarts |-> IF restart THEN st.restarts \cup {i} ELSE st.restarts])

\* src/main/dashboard.py, BitaxeDashboard.get_total_uptime
MainDashboard_get_total_uptime(rows) ==
    IF rows = <<>> THEN None
    ELSE LET current_uptime == rows[Len(rows)]
             st == MainDashboard_scan(rows, 1, ScanStart)
         IN  [kind |-> "uptime",
              session_hours |-> Hours(current_uptime),
              total_hours |-> Hours(st.total_uptime + current_uptime),
              restarts |-> st.restarts]

\* the three implementations
UptimeImpls == {"dashboard", "api_server", "main_dashboard"}

\* a caller asks one implementation for the total uptime of a device
GetTotalUptime(impl, device_id) ==
    /\ reply' = [op |-> "get_total_uptime", args |-> <<impl, device_id>>,
                 value |-> CASE impl = "dashboard" -> Dashboard_get_total_uptime(UptimeRows(device_id))
                             [] impl = "api_server" -> Api_get_total_uptime(UptimeRows(device_id))
                             [] impl = "main_dashboard" ->
                                    MainDashboard_get_total_uptime(UptimeRows(device_id))]
    /\ UNCHANGED <<performance_metrics, devices, clock_configs, next_id>>

(***************************************************************************)
(* Bucketed hashrate trends: Database.get_bucketed_hashrate_trend          *)
(* (src/src/database.py), get_hashrate_trend (src/api_server.py) and       *)
(* BitaxeDashboard.get_bucketed_hashrate_trend (src/dashboard.py)          *)
(***************************************************************************)
\* sum(bucket) for a list of hashrates
RECURSIVE SumSeq(_)
SumSeq(xs) == IF xs = <<>> THEN 0 ELSE xs[Len(xs)] + SumSeq(SubSeq(xs, 1, Len(xs) - 1))

\* AVG(hashrate), sum(bucket) / len(bucket): the fraction sum / count
Avg(xs) == [kind |-> "avg", sum |-> SumSeq(xs), count |-> Len(xs)]

\* the hashrate column of a list of rows
Hashrates(rows) == [i \in DOMAIN rows |-> rows[i].hashrate]

\* SELECT MAX(timestamp) FROM performance_metrics WHERE device_id = ?
\* (NULL when the device has no row)
MaxTimestamp(device_id) ==
    LET rows == RowsOf(device_id)
    IN  IF rows = <<>> THEN NULL
        ELSE CHOOSE t \in {rows[i].timestamp : i \in DOMAIN rows} :
                \A i \in DOMAIN rows : rows[i].timestamp <= t

\* the anchor of the store's window: the device's newest timestamp, wall
\* clock when it has none
Store_anchor(device_id) ==
    IF MaxTimestamp(device_id) # NULL THEN MaxTimestamp(device_id) ELSE now

\* a sample exactly on a bucket edge of the store's window (the anchor itself
\* excepted): (julianday(anchor) - julianday(timestamp)) * 24 * 60 / width is
\* computed in floating point and comes out just below the whole number or
\* not, depending on the date
OnBucketEdge(r, anchor, minutes, buckets) ==
    /\ anchor - r.timestamp > 0
    /\ ((anchor - r.timestamp) * buckets) % minutes = 0

\* CAST((julianday(?) - julianday(timestamp)) * 24 * 60 / ? AS INTEGER);
\* below holds the ids of the edge samples whose quotient came out low
Store_bucket(r, anchor, minutes, buckets, below) ==
    LET q == ((anchor - r.timestamp) * buckets) \div minutes
    IN  IF r.id \in below THEN q - 1 ELSE q

\* the rows the bucket_data CTE keeps and the outer WHERE lets through for
\* bucket b, rows being the rows with device_id = ? and anchor the result of
\* the MAX(timestamp) query: timestamp >= cutoff (hashrate is never NULL in
\* rows the poller writes), bucket >= 0 AND bucket < buckets
Store_bucket_rows(rows, anchor, minutes, buckets, below, b) ==
    SelectSeq(rows, LAMBDA r : /\ r.timestamp >= anchor - minutes
                               /\ Store_bucket(r, anchor, minutes, buckets, below) = b
                               /\ b >= 0 /\ b < buckets)

\* a mutant of Store_get_bucketed_hashrate_trend: the list is newest first
Store_get_bucketed_hashrate_trend_NewestFirst(rows, anchor, minutes, buckets, below) ==
    [kind |-> "trend",
     data |-> [k \in 1..buckets |->
                 LET members == Store_bucket_rows(rows, anchor, minutes, buckets, below, k - 1)
                 IN  IF members = <<>> THEN None ELSE Avg(Hashrates(members))],
     counts |-> [k \in 1..buckets |->
                 Len(Store_bucket_rows(rows, anchor, minutes, buckets, below, k - 1))]]

\* Database.get_bucketed_hashrate_trend: [results.get(i) for i in
\* range(buckets - 1, -1, -1)], so entry k of the list is bucket buckets - k.
\* counts is not returned: it is the number of samples behind each entry,
\* kept for the statements about the partition.
Store_get_bucketed_hashrate_trend(rows, anchor, minutes, buckets, below) ==
    [kind |-> "trend",
     data |-> [k \in 1..buckets |->
                 LET members == Store_bucket_rows(rows, anchor, minutes, buckets, below,
                                                  buckets - k)
                 IN  IF members = <<>> THEN None ELSE Avg(Hashrates(members))],
     counts |-> [k \in 1..buckets |->
                 Len(Store_bucket_rows(rows, anchor, minutes, buckets, below, buckets - k))]]

\* the ids of the rows on a bucket edge
EdgeIds(rows, anchor, minutes, buckets) ==
    {rows[i].id : i \in {j \in DOMAIN rows : OnBucketEdge(rows[j], anchor, minutes, buckets)}}

\* the store is asked for a trend; the floating-point outcome of the edge
\* samples is whatever the dates make it
GetStoreTrend(device_id, minutes, buckets) ==
    /\ \E rows \in {RowsOf(device_id)}, anchor \in {Store_anchor(device_id)} :
         \E below \in SUBSET EdgeIds(rows, anchor, minutes, buckets) :
            reply' = [op |-> "get_bucketed_hashrate_trend",
                      args |-> <<"store", device_id, minutes, buckets>>,
                      value |-> Store_get_bucketed_hashrate_trend(rows, anchor, minutes,
                                                                  buckets, below)]
    /\ UNCHANGED <<performance_metrics, devices, clock_configs, next_id>>

Temps(rows) == [i \in DOMAIN rows |-> rows[i].asic_temp]

\* the rows of bucket b in get_bucketed_temp_trend: the same CTE and outer
\* WHERE with `AND asic_temp IS NOT NULL AND asic_temp > 0` added
Store_temp_bucket_rows(rows, anchor, minutes, buckets, below, b) ==
    SelectSeq(rows, LAMBDA r : /\ r.timestamp >= anchor - minutes
                               /\ r.asic_temp > 0
                               /\ Store_bucket(r, anchor, minutes, buckets, below) = b
                               /\ b >= 0 /\ b < buckets)

\* a mutant of Store_get_bucketed_temp_trend: the filter is asic_temp >= 0
Store_get_bucketed_temp_trend_KeepsZero(rows, anchor, minutes, buckets, below) ==
    [kind |-> "trend",
     data |-> [k \in 1..buckets |->
                 LET members == SelectSeq(Store_bucket_rows(rows, anchor, minutes, buckets,
                                                            below, buckets - k),
                                          LAMBDA r : r.asic_temp >= 0)
                 IN  IF members = <<>> THEN None ELSE Avg(Temps(members))],
     anchor |-> anchor,
     below |-> below]

\* Database.get_bucketed_temp_trend.  anchor and below are not returned: they
\* are the anchor the call used and the floating-point outcome of its edge
\* samples, kept for the comparison with the hashrate trend.
Store_get_bucketed_temp_trend(rows, anchor, minutes, buckets, below) ==
    [kind |-> "trend",
     data |-> [k \in 1..buckets |->
                 LET members == Store_temp_bucket_rows(rows, anchor, minutes, buckets,
                                                       below, buckets - k)
                 IN  IF members = <<>> THEN None ELSE Avg(Temps(members))],
     anchor |-> anchor,
     below |-> below]

\* the store is asked for a temperature trend
GetStoreTempTrend(device_id, minutes, buckets) ==
    /\ \E rows \in {RowsOf(device_id)}, anchor \in {Store_anchor(device_id)} :
         \E below \in SUBSET EdgeIds(rows, anchor, minutes, buckets) :
            reply' = [op |-> "get_bucketed_temp_trend",
                      args |-> <<"store", device_id, minutes, buckets>>,
                      value |-> Store_get_bucketed_temp_trend(rows, anchor, minutes,
                                                              buckets, below)]
    /\ UNCHANGED <<performance_metrics, devices, clock_configs, next_id>>

\* round(x, 1) of the fraction sum / count, in tenths (a tie goes to the
\* even tenth)
Round1(avg) ==
    LET t == (10 * avg.sum) \div avg.count
        rem == (10 * avg.sum) % avg.count
    IN  [kind |-> "rounded",
         tenths |-> IF 2 * rem > avg.count \/ (2 * rem = avg.count /\ t % 2 = 1)
                    THEN t + 1 ELSE t]

\* the averaging loops of the API and the dashboard over the per-bucket
\* entries (None for an empty bucket): an empty bucket repeats the entry
\* before it; with nothing before it the API appends None (leading_none) and
\* the dashboard appends nothing
RECURSIVE CarryForward(_, _, _, _)
CarryForward(entries, i, acc, leading_none) ==
    IF i > Len(entries) THEN acc
    ELSE CarryForward(entries, i + 1,
            IF entries[i] # None THEN Append(acc, entries[i])
            ELSE IF acc # <<>> THEN Append(acc, acc[Len(acc)])
            ELSE IF leading_none THEN Append(acc, None)
            ELSE acc,
            leading_none)

\* int(elapsed_minutes / bucket_size_minutes), then `if bucket_idx >=
\* num_buckets: bucket_idx = num_buckets - 1` and, in the API, `if bucket_idx
\* < 0: bucket_idx = 0`
ClampedBucket(elapsed, minutes, num_buckets) ==
    LET idx == (elapsed * num_buckets) \div minutes
    IN  IF idx >= num_buckets THEN num_buckets - 1
        ELSE IF idx < 0 THEN 0 ELSE idx

\* buckets = [[] for _ in range(num_buckets)] after the grouping loop, entry
\* i + 1 being buckets[i]
BucketLists(rows, start_time, minutes, num_buckets) ==
    [k \in 1..num_buckets |->
        Hashrates(SelectSeq(rows, LAMBDA r :
            ClampedBucket(r.timestamp - start_time, minutes, num_buckets) = k - 1))]

\* src/api_server.py, get_hashrate_trend: the data list of the JSON answer;
\* counts as in the store's trend
Api_get_hashrate_trend(device_id, minutes, num_buckets) ==
    IF MaxTimestamp(device_id) = NULL THEN [kind |-> "trend", data |-> <<>>, counts |-> <<>>]
    ELSE LET end_time == MaxTimestamp(device_id)
             start_time == end_time - minutes
             rows == SelectSeq(OrderByTimestamp(RowsOf(device_id)),
                               LAMBDA r : r.timestamp >= start_time)
             lists == BucketLists(rows, start_time, minutes, num_buckets)
         IN  [kind |-> "trend",
              data |-> CarryForward([k \in 1..num_buckets |->
                                        IF lists[k] = <<>> THEN None
                                        ELSE Round1(Avg(lists[k]))], 1, <<>>, TRUE),
              counts |-> [k \in 1..num_buckets |-> Len(lists[k])]]

\* src/dashboard.py, BitaxeDashboard.get_bucketed_hashrate_trend (local
\* mode): the window is cut at datetime.now() - minutes and the buckets start
\* at the first row found
Dashboard_get_bucketed_hashrate_trend(device_id, minutes, num_buckets) ==
    LET lookback_time == now - minutes
        rows == SelectSeq(OrderByTimestamp(RowsOf(device_id)),
                          LAMBDA r : r.timestamp >= lookback_time)
    IN  IF rows = <<>> THEN [kind |-> "trend", data |-> <<>>, counts |-> <<>>]
        ELSE LET start_time == rows[1].timestamp
                 lists == BucketLists(rows, start_time, minutes, num_buckets)
             IN  [kind |-> "trend",
                  data |-> CarryForward([k \in 1..num_buckets |->
                                            IF lists[k] = <<>> THEN None
                                            ELSE Avg(lists[k])], 1, <<>>, FALSE),
                  counts |-> [k \in 1..num_buckets |-> Len(lists[k])]]

\* the API or the dashboard is asked for a trend
GetTrend(impl, device_id, minutes, num_buckets) ==
    /\ reply' = [op |-> "get_bucketed_hashrate_trend",
                 args |-> <<impl, device_id, minutes, num_buckets>>,
                 value |-> IF impl = "api_server"
                           THEN Api_get_hashrate_trend(device_id, minutes, num_buckets)
                           ELSE Dashboard_get_bucketed_hashrate_trend(device_id, minutes,
                                                                      num_buckets)]
    /\ UNCHANGED <<performance_metrics, devices, clock_configs, next_id>>

(***************************************************************************)
(* Variance over several timeframes: src/main/dashboard.py                 *)
(***************************************************************************)
\* src/main/dashboard.py, BitaxeDashboard.get_bucketed_hashrate_trend: the
\* window is cut at datetime.now() - minutes, the buckets start at the first
\* row found, and an empty bucket repeats the entry before it
MainDashboard_get_bucketed_hashrate_trend(device_id, minutes, num_buckets) ==
    LET lookback_time == now - minutes
        rows == SelectSeq(OrderByTimestamp(RowsOf(device_id)),
                          LAMBDA r : r.timestamp >= lookback_time)
    IN  IF rows = <<>> THEN <<>>
        ELSE LET start_time == rows[1].timestamp
                 lists == BucketLists(rows, start_time, minutes, num_buckets)
             IN  CarryForward([k \in 1..num_buckets |->
                                  IF lists[k] = <<>> THEN None ELSE Avg(lists[k])],
                              1, <<>>, FALSE)

RECURSIVE Gcd(_, _)
Gcd(a, b) == IF b = 0 THEN a ELSE Gcd(b, a % b)

\* a common denominator of the fractions of a list
RECURSIVE CommonDen(_)
CommonDen(hashrates) ==
    IF hashrates = <<>> THEN 1
    ELSE LET rest == CommonDen(SubSeq(hashrates, 1, Len(hashrates) - 1))
             c == hashrates[Len(hashrates)].count
         IN  (rest * c) \div Gcd(rest, c)

\* the fractions of a list as whole numbers over their common denominator
Scaled(hashrates) ==
    [i \in DOMAIN hashrates |->
        hashrates[i].sum * (CommonDen(hashrates) \div hashrates[i].count)]

MinOf(xs) == CHOOSE m \in {xs[i] : i \in DOMAIN xs} : \A i \in DOMAIN xs : m <= xs[i]
MaxOf(xs) == CHOOSE m \in {xs[i] : i \in DOMAIN xs} : \A i \in DOMAIN xs : xs[i] <= m

\* a mutant of variance_of: the spread is taken relative to the maximum
variance_of_OverMax(hashrates) ==
    IF Len(hashrates) > 1
    THEN LET x == Scaled(hashrates)
         IN  [kind |-> "variance",
              variance |-> IF SumSeq(x) > 0
                           THEN Round1([sum |-> (MaxOf(x) - MinOf(x)) * 100,
                                        count |-> MaxOf(x)]).tenths
                           ELSE 0,
              samples |-> Len(hashrates),
              avg_hr |-> [sum |-> SumSeq(x), count |-> CommonDen(hashrates) * Len(hashrates)]]
    ELSE None

\* get_multi_timeframe_variance, the body of its loop after the trend was
\* taken: variance is round(variance_pct, 1) in tenths, (max_hr - min_hr) /
\* avg_hr * 100 being (max - min) * len * 100 / sum; avg_hr is kept as the
\* fraction sum / len although the dictionary returned does not hold it
variance_of(hashrates) ==
    IF Len(hashrates) > 1
    THEN LET x == Scaled(hashrates)
         IN  [kind |-> "variance",
              variance |-> IF SumSeq(x) > 0
                           THEN Round1([sum |-> (MaxOf(x) - MinOf(x)) * Len(x) * 100,
                                        count |-> SumSeq(x)]).tenths
                           ELSE 0,
              samples |-> Len(hashrates),
              avg_hr |-> [sum |-> SumSeq(x), count |-> CommonDen(hashrates) * Len(hashrates)]]
    ELSE None

\* timeframes = {'1h': (60, 30), '4h': (240, 48), '8h': (480, 48),
\*               '24h': (1440, 24), '3d': (4320, 36)}
timeframes ==
    [l \in {"1h", "4h", "8h", "24h", "3d"} |->
        CASE l = "1h" -> <<60, 30>>
          [] l = "4h" -> <<240, 48>>
          [] l = "8h" -> <<480, 48>>
          [] l = "24h" -> <<1440, 24>>
          [] l = "3d" -> <<4320, 36>>]

\* src/main/dashboard.py, BitaxeDashboard.get_multi_timeframe_variance
get_multi_timeframe_variance(device_id) ==
    [l \in DOMAIN timeframes |->
        variance_of(MainDashboard_get_bucketed_hashrate_trend(
                        device_id, timeframes[l][1], timeframes[l][2]))]

\* the dashboard asks for the variances of a device
GetVariance(device_id) ==
    /\ reply' = [op |-> "get_multi_timeframe_variance", args |-> <<device_id>>,
                 value |-> get_multi_timeframe_variance(device_id)]
    /\ UNCHANGED <<performance_metrics, devices, clock_configs, next_id>>

\* the loop body of get_multi_timeframe_variance on a list of bucket values
ComputeVariance(hashrates) ==
    /\ reply' = [op |-> "variance_of", args |-> hashrates, value |-> variance_of(hashrates)]
    /\ UNCHANGED <<performance_metrics, devices, clock_configs, next_id>>

(***************************************************************************)
(* Specifications                                                          *)
(***************************************************************************)
\* the tracker's configuration in the specifications that do not move it
ParkedBot ==
    /\ InitBot
    /\ config = [auto_report |-> "off", weekly_report |-> "off", alerts |-> "off"]

\* the parts of the state outside the store file, the tracker and the poller
InitApp == InitMain /\ InitChart /\ InitProfiles

\* every setting of auto_report and alerts; weekly reports are left off here
Init ==
    /\ InitStore /\ InitBot /\ InitPoller /\ InitConfig /\ InitTable /\ InitApp
    /\ config.weekly_report = "off"

notBot == <<streakHist, pollerVars, configVars, tableVars, appVars>>

\* the alert tracker over restarts of the bot process
Next ==
    \/ Tick /\ UNCHANGED restartHist /\ UNCHANGED notBot
    \/ \E d \in DeviceIds, temp \in AsicTemps, diff \in BestDiffs :
          PollerStores(d, temp, diff) /\ UNCHANGED restartHist /\ UNCHANGED notBot
    \/ OnReady /\ ObserveOnReady /\ UNCHANGED notBot
    \/ CheckAlerts /\ ObserveCheck /\ UNCHANGED notBot
    \/ CheckAlertsNoChannel /\ UNCHANGED restartHist /\ UNCHANGED notBot
    \/ Restart /\ ObserveRestart /\ UNCHANGED notBot

Spec == Init /\ [][Next]_vars

\* the alert tracker within one life of the bot process, alerts scheduled
InitChecks ==
    /\ InitStore /\ InitBot /\ InitPoller /\ InitConfig /\ InitTable /\ InitApp
    /\ config = [auto_report |-> "on", weekly_report |-> "off", alerts |-> "on"]

notChecks == <<restartHist, pollerVars, configVars, tableVars, appVars>>

NextChecks ==
    \/ Tick /\ UNCHANGED streakHist /\ UNCHANGED notChecks
    \/ \E d \in DeviceIds, temp \in AsicTemps, diff \in BestDiffs :
          PollerStores(d, temp, diff) /\ UNCHANGED streakHist /\ UNCHANGED notChecks
    \/ OnReady /\ UNCHANGED streakHist /\ UNCHANGED notChecks
    \/ CheckAlerts /\ ObserveStreak /\ UNCHANGED notChecks
    \/ CheckAlertsNoChannel /\ UNCHANGED streakHist /\ UNCHANGED notChecks

SpecChecks == InitChecks /\ [][NextChecks]_vars

InitP == InitStore /\ ParkedBot /\ InitPoller /\ InitConfig /\ InitTable /\ InitApp

\* what the cleanup of main() leaves alone
notMain == <<storeVars, botVars, histVars, pollerVars, configVars, tableVars,
            cacheVars, profileVars>>

notPoller == <<storeVars, botVars, histVars, configVars, tableVars, appVars>>

NextP ==
    \/ Run /\ UNCHANGED notPoller
    \/ StartCycle /\ UNCHANGED notPoller
    \/ LoopExit /\ UNCHANGED notPoller
    \/ AwaitTask /\ UNCHANGED notPoller
    \/ \E outcome \in FetchOutcomes : FetchReturns(outcome) /\ UNCHANGED notPoller
    \/ \E outcome \in ProcessOutcomes : ProcessResult(outcome) /\ UNCHANGED notPoller
    \/ EndProcessing /\ UNCHANGED notPoller
    \/ WakeUp /\ UNCHANGED notPoller
    \/ CooldownOver /\ UNCHANGED notPoller
    \/ Stop /\ UNCHANGED notPoller
    \/ Interrupt /\ UNCHANGED notPoller

SpecPoller == InitP /\ [][NextP]_vars

notConfig == <<storeVars, botVars, histVars, pollerVars, tableVars, appVars>>

NextC ==
    \/ \E w \in Writers, pair \in Pairs : Call(w, pair) /\ UNCHANGED notConfig
    \/ \E w \in Writers : SelectConfig(w) /\ UNCHANGED notConfig
    \/ \E w \in Writers : InsertConfig(w) /\ UNCHANGED notConfig

SpecConfig == InitP /\ [][NextC]_vars

\* the store under the poller's writes and the latest-sample query
SampleTimes == {10, 20, 30}
notStore == <<now, latest_row, max_best_diff, botVars, histVars, pollerVars,
              wpc, wargs, wret, wcalls, appVars>>

NextStore ==
    \/ \E d \in DeviceIds : register_device(d) /\ UNCHANGED notStore
    \/ \E pair \in Pairs : get_or_create_config(pair) /\ UNCHANGED notStore
    \/ /\ Len(performance_metrics) < MaxRows
       /\ \E d \in DeviceIds, ts \in SampleTimes : InsertMetric(d, ts, 500, 50, ts)
       /\ UNCHANGED notStore
    \/ InsertMetricRaises /\ UNCHANGED notStore
    \/ \E d \in DeviceIds : GetLatestMetric(d) /\ UNCHANGED notStore

SpecStore == InitP /\ [][NextStore]_vars

\* the uptime counters a device reports, seconds
Uptimes == {50, 100, 150, 200, 900, 1000, 1500, 1600, 3600, 4000}
\* the device of the aggregation specifications and what it reports
Pair1 == <<600, 1200>>
\* the poller's timestamp of the next sample: five minutes after the last
NextSampleTime == 5 * Len(performance_metrics)

\* the uptime history of one device and the three session reconstructions
NextUptime ==
    \/ register_device("d1") /\ UNCHANGED notStore
    \/ get_or_create_config(Pair1) /\ UNCHANGED notStore
    \/ /\ Len(performance_metrics) < MaxSamples
       /\ \E uptime \in Uptimes : InsertMetric("d1", NextSampleTime, 500, 50, uptime)
       /\ UNCHANGED notStore
    \/ \E impl \in UptimeImpls : GetTotalUptime(impl, "d1") /\ UNCHANGED notStore

SpecUptime == InitP /\ [][NextUptime]_vars

\* uptime counters on both sides of the one-hour line
PairUptimes == {50, 1000, 3600, 4000}

\* the uptime history of one device, reconstructed by the dashboard in local
\* mode and by the API server
NextUptimePair ==
    \/ register_device("d1") /\ UNCHANGED notStore
    \/ get_or_create_config(Pair1) /\ UNCHANGED notStore
    \/ /\ Len(performance_metrics) < MaxSamples
       /\ \E uptime \in PairUptimes : InsertMetric("d1", NextSampleTime, 500, 50, uptime)
       /\ UNCHANGED notStore
    \/ \E impl \in {"dashboard", "api_server"} : GetTotalUptime(impl, "d1") /\ UNCHANGED notStore

SpecUptimePair == InitP /\ [][NextUptimePair]_vars

\* what the table specifications with a moving clock leave alone
notTable == <<latest_row, max_best_diff, botVars, histVars, pollerVars,
              wpc, wargs, wret, wcalls, appVars>>

\* minutes between two polls, the hashrates reported, the length of a stall
\* of the collection, and the (minutes, buckets) the trends are asked for
PollGaps == {5, 20}
HashrateValues == {300, 500}
Stalls == {60}
TrendArgs == {<<50, 5>>, <<15, 3>>}
TrendImpls == {"api_server", "dashboard"}

\* every sample so far came five minutes after the one before, hashrate 500
Steady ==
    \A i \in DOMAIN performance_metrics :
        /\ performance_metrics[i].timestamp = 5 * i
        /\ performance_metrics[i].hashrate = 500

\* the poller samples the device after a poll interval: timestamp=datetime.now()
PollerSample(d, gap, hashrate) ==
    /\ now' = now + gap
    /\ InsertMetric(d, now + gap, hashrate, 50, now + gap)

\* the collection stalls: time passes and no sample is written
Stall(minutes) ==
    /\ performance_metrics # <<>>
    /\ now = performance_metrics[Len(performance_metrics)].timestamp
    /\ now' = now + minutes
    /\ UNCHANGED <<performance_metrics, reply, devices, clock_configs, next_id>>

\* histories of one device: any of up to MaxTrendSamples samples, and the steady
\* one up to MaxSteady samples; the three trend computations
NextTrend ==
    \/ register_device("d1") /\ UNCHANGED now /\ UNCHANGED notTable
    \/ get_or_create_config(Pair1) /\ UNCHANGED now /\ UNCHANGED notTable
    \/ /\ \E gap \in PollGaps, h \in HashrateValues :
            /\ \/ Len(performance_metrics) < MaxTrendSamples
               \/ Steady /\ gap = 5 /\ h = 500 /\ Len(performance_metrics) < MaxSteady
            /\ PollerSample("d1", gap, h)
       /\ UNCHANGED notTable
    \/ \E minutes \in Stalls : Stall(minutes) /\ UNCHANGED notTable
    \/ \E a \in TrendArgs : GetStoreTrend("d1", a[1], a[2]) /\ UNCHANGED now /\ UNCHANGED notTable
    \/ \E impl \in TrendImpls, a \in TrendArgs :
          GetTrend(impl, "d1", a[1], a[2]) /\ UNCHANGED now /\ UNCHANGED notTable

SpecTrend == InitP /\ [][NextTrend]_vars

\* minutes between two polls and the hashrates reported in the histories the
\* variances are taken of
VarianceGaps == {1, 20}
VarianceHashrates == {0, 100, 200}

\* histories of one device and the variances of the five timeframes
NextVariance ==
    \/ register_device("d1") /\ UNCHANGED now /\ UNCHANGED notTable
    \/ get_or_create_config(Pair1) /\ UNCHANGED now /\ UNCHANGED notTable
    \/ /\ Len(performance_metrics) < MaxVarianceSamples
       /\ \E gap \in VarianceGaps, h \in VarianceHashrates : PollerSample("d1", gap, h)
       /\ UNCHANGED notTable
    \/ \E minutes \in Stalls : Stall(minutes) /\ UNCHANGED notTable
    \/ GetVariance("d1") /\ UNCHANGED now /\ UNCHANGED notTable

SpecVariance == InitP /\ [][NextVariance]_vars

\* the lists of up to n bucket values
RECURSIVE ListsUpTo(_)
ListsUpTo(n) ==
    IF n = 0 THEN {<<>>}
    ELSE LET shorter == ListsUpTo(n - 1)
         IN  shorter \cup {Append(xs, Avg(<<h>>)) : xs \in shorter, h \in VarianceHashrates}

\* the variance computation on every list of up to MaxEntries bucket values
NextFormula ==
    \/ \E hashrates \in ListsUpTo(MaxEntries) :
          ComputeVariance(hashrates) /\ UNCHANGED now /\ UNCHANGED notTable

SpecFormula == InitP /\ [][NextFormula]_vars

\* the poller daemon inside the entry point: run() until it ends, then the
\* cleanup of main()
NextMain ==
    \/ Run /\ UNCHANGED notPoller
    \/ StartCycle /\ UNCHANGED notPoller
    \/ LoopExit /\ UNCHANGED notPoller
    \/ AwaitTask /\ UNCHANGED notPoller
    \/ \E outcome \in FetchOutcomes : FetchReturns(outcome) /\ UNCHANGED notPoller
    \/ \E outcome \in ProcessOutcomes : ProcessResult(outcome) /\ UNCHANGED notPoller
    \/ EndProcessing /\ UNCHANGED notPoller
    \/ WakeUp /\ UNCHANGED notPoller
    \/ CooldownOver /\ UNCHANGED notPoller
    \/ Stop /\ UNCHANGED notPoller
    \/ Interrupt /\ UNCHANGED notPoller
    \/ RunEnds /\ UNCHANGED notMain
    \/ RunRaises /\ UNCHANGED <<storeVars, botVars, histVars, configVars, tableVars,
                                cacheVars, profileVars>>
    \/ \E outcome \in CheckpointOutcomes : FinallyCloses(outcome) /\ UNCHANGED notMain
    \/ GetStats /\ UNCHANGED notMain

SpecMain == InitP /\ [][NextMain]_vars

\* what the health specification leaves alone
notHealth == <<botVars, histVars, pollerVars, wpc, wargs, wret, wcalls, appVars>>
HealthStep == 5
HealthThresholds == {HealthStep, OfflineThresholdMinutes}

\* time passes
TimePasses(minutes) ==
    /\ now + minutes <= MaxHealthSteps * HealthStep
    /\ now' = now + minutes
    /\ UNCHANGED <<performance_metrics, reply, devices, clock_configs, next_id,
                   latest_row, max_best_diff>>

\* samples of two devices as time passes, and the health queries
NextHealth ==
    \/ \E d \in DeviceIds : register_device(d)
          /\ UNCHANGED <<now, latest_row, max_best_diff>> /\ UNCHANGED notHealth
    \/ get_or_create_config(Pair1)
          /\ UNCHANGED <<now, latest_row, max_best_diff>> /\ UNCHANGED notHealth
    \/ /\ Len(performance_metrics) < MaxRows
       /\ \E d \in DeviceIds : StoreSample(d, 50)
       /\ UNCHANGED now /\ UNCHANGED notHealth
    \/ TimePasses(HealthStep) /\ UNCHANGED notHealth
    \/ \E d \in DeviceIds, t \in HealthThresholds : GetDeviceHealthStatus(d, t)
          /\ UNCHANGED <<now, latest_row, max_best_diff>> /\ UNCHANGED notHealth
    \/ \E t \in HealthThresholds : GetAllDeviceHealth(DeviceIds, t)
          /\ UNCHANGED <<now, latest_row, max_best_diff>> /\ UNCHANGED notHealth

SpecHealth == InitP /\ [][NextHealth]_vars

\* the ASIC temperatures reported, sensor errors among them
TempReadings == {-10, 0, 50}

\* the poller samples the device after a poll interval
PollerTempSample(d, gap, temp) ==
    /\ now' = now + gap
    /\ InsertMetric(d, now + gap, 500, temp, now + gap)

\* histories of one device with its temperatures, and the two trends of the
\* store
NextTemp ==
    \/ register_device("d1") /\ UNCHANGED now /\ UNCHANGED notTable
    \/ get_or_create_config(Pair1) /\ UNCHANGED now /\ UNCHANGED notTable
    \/ /\ Len(performance_metrics) < MaxTempSamples
       /\ \E gap \in PollGaps, temp \in TempReadings : PollerTempSample("d1", gap, temp)
       /\ UNCHANGED notTable
    \/ \E a \in TrendArgs : GetStoreTrend("d1", a[1], a[2]) /\ UNCHANGED now /\ UNCHANGED notTable
    \/ \E a \in TrendArgs : GetStoreTempTrend("d1", a[1], a[2]) /\ UNCHANGED now /\ UNCHANGED notTable

SpecTemp == InitP /\ [][NextTemp]_vars

\* what the chart specification leaves alone
notChart == <<devices, latest_row, max_best_diff, botVars, histVars, pollerVars,
              configVars, performance_metrics, mainVars, profileVars>>
ChartTypes == {"swarm_hashrate", "miner_detail"}
ChartHours == {12}
ChartGaps == {2, 3}

\* minutes pass between two chart requests
ChartClock(minutes) ==
    /\ now + minutes <= MaxChartMinutes
    /\ now' = now + minutes
    /\ UNCHANGED <<reply, cache, generated>>

\* chart requests as time passes
NextChart ==
    \/ \E chart \in ChartTypes, hours \in ChartHours, device_ids \in DeviceLists :
          GenerateChart(chart, hours, device_ids) /\ UNCHANGED now /\ UNCHANGED notChart
    \/ \E minutes \in ChartGaps : ChartClock(minutes) /\ UNCHANGED notChart

SpecChart == InitP /\ [][NextChart]_vars

\* what the profile specification leaves alone
notProfiles == <<storeVars, botVars, histVars, pollerVars, configVars,
                 performance_metrics, mainVars, cacheVars>>
\* the device ids and profile names of the requests, and the bodies: values
\* inside and outside the limits, and a body without core_voltage
RequestDevices == {"d1", "d9"}
ProfileNames == {"eco", "turbo", "a/b"}
ProfileBodies ==
    {[frequency |-> f, core_voltage |-> 1200, fan_mode |-> m, fan_speed |-> s] :
        f \in {500, 700}, m \in {"auto", "manual", "max"}, s \in {50, 150}}
    \cup {[frequency |-> 500, core_voltage |-> v, fan_mode |-> "auto", min_fan_speed |-> n] :
        v \in {1200, 1400}, n \in {20, 200}}
    \cup {[frequency |-> 500, fan_mode |-> "manual"]}
ControlSettings == {"frequency", "coreVoltage", "manualFanSpeed"}
ControlValues == {50, 150, 500, 1200}

\* profile and control requests in any order
NextProfiles ==
    \/ \E d \in RequestDevices, name \in ProfileNames, data \in ProfileBodies :
          save_profile(d, name, data) /\ UNCHANGED notProfiles
    \/ \E d \in RequestDevices, name \in ProfileNames, nerdqaxe \in BOOLEAN, ok \in BOOLEAN :
          apply_profile(d, name, nerdqaxe, ok) /\ UNCHANGED notProfiles
    \/ \E setting \in ControlSettings, d \in RequestDevices, value \in ControlValues,
          ok \in BOOLEAN :
          set_device(setting, d, value, ok) /\ UNCHANGED notProfiles
    \/ \E d \in RequestDevices, min_fan \in {20, 200}, nerdqaxe \in BOOLEAN, ok \in BOOLEAN :
          enable_device_autofan(d, min_fan, nerdqaxe, ok) /\ UNCHANGED notProfiles

SpecProfiles == InitP /\ [][NextProfiles]_vars

\* the characters of the difficulty strings enumerated, the strings of the
\* documentation, and the values of other types
Chars == {"0", "2", ".", " ", "K", "M", "G", "T", "m", "x"}
DocStrings == {<<"6", ".", "1", "3", " ", "M">>, <<"2", "7", ".", "2", "1", "M">>,
               <<"a", "b", "c">>}
DifficultyInputs ==
    {Str(chars) : chars \in UNION {[1..n -> Chars] : n \in 0..MaxLen} \cup DocStrings}
    \cup {Num(1234567, -2), Num(5, 0), Num(0, 0), Num(120, 0)}
    \cup {None, [kind |-> "list"]}

\* a field of every value is about to be validated
InitParse ==
    /\ InitStore /\ ParkedBot /\ InitPoller /\ InitConfig /\ InitApp
    /\ performance_metrics = <<>>
    /\ reply \in {Field(v) : v \in DifficultyInputs}

\* parse_difficulty on the field, and on its own result
NextParse ==
    \/ ParseDifficulty /\ UNCHANGED <<now, latest_row, max_best_diff>> /\ UNCHANGED notHealth
    \/ ParseAgain /\ UNCHANGED <<now, latest_row, max_best_diff>> /\ UNCHANGED notHealth

SpecParse == InitParse /\ [][NextParse]_vars

(***************************************************************************)
(* Claims about the alert tracker                                          *)
(***************************************************************************)
OfflineAlert(d) == Message("offline", d, NULL)
OnlineNotice(d) == Message("online", d, NULL)
OverheatAlerted(d, bag) == \E m \in BagToSet(bag) : m.kind = "overheating" /\ m.device = d
RecordNotices(bag) == {m \in BagToSet(bag) : m.kind = "record"}

\* the ASIC temperature of the device's newest sample is at or above the threshold
IsOverheatingNow(d) ==
    latest_row[d] # NoRow /\ latest_row[d].asic_temp >= TempThreshold

\* the largest best difficulty among the newest samples of the fleet (NULL: none)
FleetBestDiff ==
    LET vals == {latest_row[d].best_diff : d \in {x \in DeviceIds : latest_row[x] # NoRow}}
                \ {NULL}
    IN  IF vals = {} THEN NULL ELSE CHOOSE v \in vals : \A w \in vals : w <= v

C5_SeededAtStartup ==
    /\ (bot = "ready" /\ config.alerts = "on" /\ checksRun = 0
            => highest_diff_seen = Max2(maxAtStart, 0))
    /\ \A m \in RecordNotices(sent) : m.value > maxAtStart

\* after a restart, a check ran over a fleet whose best difficulty was already
\* in the store at startup, and announced nothing
C5_Witness ==
    /\ checksRun = 1
    /\ preOffline # {}
    /\ maxAtStart >= 1
    /\ FleetBestDiff = maxAtStart
    /\ RecordNotices(sent) = {}
    /\ highest_diff_seen = maxAtStart

(***************************************************************************)
(* Claims about the poller daemon                                          *)
(***************************************************************************)
FetchedOk(d) == fetch[d] = "ok"
CycleOver == ppc \in {"sleep", "cooldown"}

\* C6: whatever subset of the enabled devices fails, poll_all_devices runs to
\* its end without raising (from the polling phase the loop goes on polling or
\* to the processing of the results, unless it is interrupted, and logs no
\* loop error), a disabled device is never fetched, and the results are the
\* enabled devices whose fetch succeeded, each once, in list order: while
\* polling, those among the tasks awaited so far; afterwards, among all.
C6_FailureIsolation ==
    /\ [](/\ ppc = "poll" =>
                results = SelectSeq(SubSeq(Tasks, 1, awaited), FetchedOk)
          /\ ppc \in {"process", "sleep", "cooldown"} =>
                results = SelectSeq(Tasks, FetchedOk)
          /\ \A i \in DOMAIN PollerDevices :
                ~PollerDevices[i].enabled => fetch[PollerDevices[i].name] = "none")
    /\ [][ppc = "poll" =>
             /\ ppc' \in {"poll", "process", "interrupted"}
             /\ errors_logged' = errors_logged]_vars

\* poll_all_devices has returned d2's result alone after d1 timed out
C6_Witness ==
    /\ ppc = "process"
    /\ fetch["d1"] = "timeout"
    /\ fetch["d2"] = "ok"
    /\ results = <<"d2">>

\* C7: when store_metrics raised for a device in a cycle, the cycle still
\* ends with the sample of every other successfully polled device inserted.
C7_StoreFailureLosesOneSample ==
    CycleOver /\ store_failed # {} =>
        \A i \in DOMAIN results :
            results[i] \notin store_failed => <<poll_count, results[i]>> \in inserted

\* C8: an exception in a cycle is logged and leads to the cooldown and never
\* out of the loop; the cooldown leads back to the loop test (or to an
\* interrupt); at the loop test a running daemon starts another cycle; and
\* the loop is left through its test only when stop() has cleared
\* self.running.
C8_DaemonSurvivesErrors ==
    [][/\ errors_logged' > errors_logged => ppc' = "cooldown"
       /\ (ppc = "cooldown" /\ ppc' # "cooldown") => ppc' \in {"loop", "interrupted"}
       /\ (ppc = "loop" /\ running /\ ppc' # "loop") => ppc' \in {"poll", "process"}
       /\ (ppc' = "stopped" /\ ppc # "stopped") => (ppc = "loop" /\ ~running)]_vars

\* a second cycle is polling after the first one raised and cooled down
C8_Witness ==
    /\ ppc = "poll"
    /\ poll_count = 2
    /\ errors_logged = 1
    /\ running

\* C9: while a fetch of the cycle is in flight, the fetch of every enabled
\* device has been started.
C9_FetchesConcurrent ==
    (ppc = "poll" /\ \E d \in PollerNames : fetch[d] = "inflight") =>
        \A i \in DOMAIN Tasks : fetch[Tasks[i]] # "created"

(***************************************************************************)
(* Claims about get_or_create_config                                       *)
(***************************************************************************)
\* C10: no call fails, every call that returned has the id of the one row of
\* its pair, and the table holds at most one row per pair.
C10_GetOrCreateRaceSafe ==
    /\ \A w \in Writers : wpc[w] # "raised"
    /\ \A w \in Writers : wpc[w] = "returned" =>
          ConfigRowsOf(wargs[w]) = {[id |-> wret[w], frequency |-> wargs[w][1],
                                     core_voltage |-> wargs[w][2]]}
    /\ \A pair \in Pairs : Cardinality(ConfigRowsOf(pair)) <= 1


(***************************************************************************)
(* Claims about the store's table and its queries                          *)
(***************************************************************************)
\* the timestamps of a sequence of rows strictly increase
Increasing(rows) == \A i \in 1..(Len(rows) - 1) : rows[i].timestamp < rows[i + 1].timestamp

\* C11: insert_metric is a single-row append: a successful call adds exactly
\* one row to performance_metrics, and no step of register_device,
\* get_or_create_config or insert_metric changes or removes a row that was
\* already there.
C11_InsertIsAppend ==
    [][/\ (reply'.op = "insert_metric" /\ reply'.value = None)
            => Len(performance_metrics') = Len(performance_metrics) + 1
       /\ \A i \in DOMAIN performance_metrics :
            /\ i \in DOMAIN performance_metrics'
            /\ performance_metrics'[i] = performance_metrics[i]]_vars

\* three rows, two of them of d1, the last one just inserted
C11_Witness ==
    /\ Len(performance_metrics) = 3
    /\ Len(RowsOf("d1")) = 2
    /\ reply.op = "insert_metric" /\ reply.value = None

\* C20: get_latest_metric(d) answers None exactly when d has no row; otherwise
\* it answers a row of d whose timestamp no row of d exceeds, joined with the
\* frequency and core voltage of that row's clock config, whatever rows other
\* devices have; when d's rows were inserted with increasing timestamps it is
\* the row inserted last.
C20_LatestMetric ==
    reply.op = "get_latest_metric" =>
        LET d == reply.args[1]
            rows == RowsOf(d)
            v == reply.value
        IN  /\ (rows = <<>>) <=> (v = None)
            /\ rows # <<>> =>
                 /\ v.kind = "row"
                 /\ \E i \in DOMAIN rows : rows[i] = v.row
                 /\ \A i \in DOMAIN rows : rows[i].timestamp <= v.row.timestamp
                 /\ \E c \in clock_configs :
                       /\ c.id = v.row.config_id
                       /\ c.frequency = v.frequency
                       /\ c.core_voltage = v.core_voltage
                 /\ Increasing(rows) => v.row = rows[Len(rows)]

\* d1's newest row is not the one inserted last, d2 holds a newer row still,
\* and the latest metric of d1 was asked for
C20_Witness ==
    /\ reply.op = "get_latest_metric" /\ reply.args[1] = "d1"
    /\ Len(RowsOf("d1")) = 2
    /\ RowsOf("d1")[1].timestamp > RowsOf("d1")[2].timestamp
    /\ \E i \in DOMAIN performance_metrics :
          /\ performance_metrics[i].device_id = "d2"
          /\ performance_metrics[i].timestamp > RowsOf("d1")[1].timestamp


(***************************************************************************)
(* Claims about session reconstruction                                     *)
(***************************************************************************)
\* the samples at which a segment begins by the rule of the reconstruction:
\* lower than the previous sample and below one hour
Boundaries(u) == {i \in 2..Len(u) : u[i] < u[i - 1] /\ u[i] < 3600}

\* where the segment closed at boundary b began
SegmentStart(u, b) ==
    LET earlier == {c \in Boundaries(u) : c < b}
    IN  IF earlier = {} THEN 1 ELSE CHOOSE c \in earlier : \A e \in earlier : e <= c

\* the sum, over the boundaries in B, of the maximum of the segment closed there
RECURSIVE ClosedSegmentsTotal(_, _)
ClosedSegmentsTotal(u, B) ==
    IF B = {} THEN 0
    ELSE LET b == CHOOSE b \in B : TRUE
         IN  MaxUptime(u, SegmentStart(u, b), b - 1) + ClosedSegmentsTotal(u, B \ {b})

C13_ClockSkewIgnored ==
    reply.op = "get_total_uptime" =>
        LET u == UptimeRows(reply.args[2])
            v == reply.value
        IN  u # <<>> =>
              /\ \A i \in v.restarts : u[i] < 3600
              /\ u = <<1000, 1500, 900, 1600>> =>
                    /\ v.total_hours = <<1600, 3600>>
                    /\ v.session_hours = <<1600, 3600>>


(***************************************************************************)
(* Claims about the bucketed trends                                        *)
(***************************************************************************)
\* the samples of a device inside the window [anchor - minutes, anchor],
\* anchor being the device's newest timestamp
InWindow(device_id, minutes) ==
    SelectSeq(RowsOf(device_id),
              LAMBDA r : /\ MaxTimestamp(device_id) - minutes <= r.timestamp
                         /\ r.timestamp <= MaxTimestamp(device_id))

\* C14: the trend of the store and of the API puts every sample of the
\* window [anchor - minutes, anchor] (both ends included) into exactly one of
\* the bucketCount buckets: there are bucketCount buckets and their sample
\* counts add up to the number of samples in the window.
C14_BucketingPartition ==
    (/\ reply.op = "get_bucketed_hashrate_trend"
     /\ reply.args[1] \in {"store", "api_server"}
     /\ RowsOf(reply.args[2]) # <<>>) =>
        /\ Len(reply.value.counts) = reply.args[4]
        /\ SumSeq(reply.value.counts) = Len(InWindow(reply.args[2], reply.args[3]))

\* C15: each of the three trend computations ends its window at the device's
\* newest sample, however old: when the device has samples the list is not
\* empty and its last entry, the most recent bucket, is not absent.
C15_AnchoredAtLastSample ==
    (/\ reply.op = "get_bucketed_hashrate_trend"
     /\ RowsOf(reply.args[2]) # <<>>) =>
        /\ reply.value.data # <<>>
        /\ reply.value.data[Len(reply.value.data)] # None

\* the sum of the hashrates of the rows at the positions in S
RECURSIVE SumHashratesAt(_, _)
SumHashratesAt(rows, S) ==
    IF S = {} THEN 0
    ELSE LET i == CHOOSE i \in S : TRUE
         IN  rows[i].hashrate + SumHashratesAt(rows, S \ {i})

\* where sample i stands in entry k of a trend of `buckets` entries over
\* `minutes`: strictly inside the k-th interval from the oldest (the anchor
\* belongs to the newest), or on one of its two ends
InsideEntry(rows, i, k, minutes, buckets, anchor) ==
    LET x == (anchor - rows[i].timestamp) * buckets
        lo == (buckets - k) * minutes
    IN  (lo < x /\ x < lo + minutes) \/ (x = 0 /\ k = buckets)

OnEndOfEntry(rows, i, k, minutes, buckets, anchor) ==
    LET x == (anchor - rows[i].timestamp) * buckets
        lo == (buckets - k) * minutes
    IN  x > 0 /\ (x = lo \/ x = lo + minutes)

\* C16: the store's trend has exactly bucketCount entries, oldest first;
\* entry k is the plain average of the samples of the k-th interval of the
\* window (a sample exactly on an end of the interval may count here or in
\* the neighbouring interval) and the absent marker when it has none, never a
\* value carried over; ten samples five minutes apart with hashrate 500 give
\* trend(50, 5) = five entries, none absent, each 500.
C16_StoreTrend ==
    (/\ reply.op = "get_bucketed_hashrate_trend"
     /\ reply.args[1] = "store") =>
        LET rows == RowsOf(reply.args[2])
            minutes == reply.args[3]
            buckets == reply.args[4]
            anchor == Store_anchor(reply.args[2])
            data == reply.value.data
        IN  /\ Len(data) = buckets
            /\ \A k \in 1..buckets :
                 LET inside == {i \in DOMAIN rows :
                                   InsideEntry(rows, i, k, minutes, buckets, anchor)}
                     ends == {i \in DOMAIN rows :
                                   OnEndOfEntry(rows, i, k, minutes, buckets, anchor)}
                 IN  \E E \in SUBSET ends :
                        data[k] = IF inside \cup E = {} THEN None
                                  ELSE [kind |-> "avg",
                                        sum |-> SumHashratesAt(rows, inside \cup E),
                                        count |-> Cardinality(inside \cup E)]
            /\ (Steady /\ Len(performance_metrics) = 10 /\ minutes = 50 /\ buckets = 5) =>
                 \A k \in 1..5 : data[k] # None /\ data[k].sum = 500 * data[k].count

\* the store's trend(50, 5) of ten samples five minutes apart, hashrate 500
C16_Witness ==
    /\ reply.op = "get_bucketed_hashrate_trend" /\ reply.args = <<"store", "d1", 50, 5>>
    /\ Steady /\ Len(performance_metrics) = 10


(***************************************************************************)
(* Claims about the variance over timeframes                               *)
(***************************************************************************)
\* the averages of the buckets of a timeframe that hold samples, oldest
\* first, as src/main/dashboard.py buckets the window
ValidBucketAverages(device_id, minutes, num_buckets) ==
    LET rows == SelectSeq(OrderByTimestamp(RowsOf(device_id)),
                          LAMBDA r : r.timestamp >= now - minutes)
        lists == IF rows = <<>> THEN <<>>
                 ELSE BucketLists(rows, rows[1].timestamp, minutes, num_buckets)
        valid == SelectSeq(lists, LAMBDA xs : xs # <<>>)
    IN  [i \in DOMAIN valid |-> Avg(valid[i])]

\* C17: get_multi_timeframe_variance answers None for every timeframe in
\* which fewer than two buckets hold samples.
C17_NoDataBelowTwoBuckets ==
    reply.op = "get_multi_timeframe_variance" =>
        \A l \in DOMAIN timeframes :
            Len(ValidBucketAverages(reply.args[1], timeframes[l][1], timeframes[l][2])) < 2
                => reply.value[l] = None

\* C18: for every timeframe in which at least two buckets hold samples the
\* variance reported is (max - min) / mean * 100 over the averages of those
\* buckets (to the one decimal reported), and 0 when the mean is 0.
C18_VarianceFormula ==
    reply.op = "get_multi_timeframe_variance" =>
        \A l \in DOMAIN timeframes :
            LET valid == ValidBucketAverages(reply.args[1], timeframes[l][1], timeframes[l][2])
                x == Scaled(valid)
                spread == (MaxOf(x) - MinOf(x)) * Len(x) * 100
                v == reply.value[l]
            IN  Len(valid) >= 2 =>
                  /\ v # None
                  /\ SumSeq(x) = 0 => v.variance = 0
                  /\ SumSeq(x) > 0 =>
                        /\ 2 * v.variance * SumSeq(x) - 20 * spread <= SumSeq(x)
                        /\ 20 * spread - 2 * v.variance * SumSeq(x) <= SumSeq(x)

\* the list of bucket values [100, 200]
Buckets100And200 == <<Avg(<<100>>), Avg(<<200>>)>>

SamplesWithin(device_id, minutes_threshold, t) ==
    {i \in DOMAIN performance_metrics :
        /\ performance_metrics[i].device_id = device_id
        /\ t - performance_metrics[i].timestamp <= minutes_threshold}

\* what the claim requires of one health record
HealthAsClaimed(h, device_id, minutes_threshold, t) ==
    /\ h.is_online = (SamplesWithin(device_id, minutes_threshold, t) # {})
    /\ RowsOf(device_id) = <<>> => ~h.is_online /\ h.last_seen = NULL
    /\ RowsOf(device_id) # <<>> =>
          /\ h.last_seen = MaxTimestamp(device_id)
          /\ t - h.last_seen = minutes_threshold => h.is_online

\* C21: get_device_health_status reports a device offline iff it has no
\* sample within threshold minutes of now; a device without samples is
\* offline with last_seen absent, and a device whose latest sample is exactly
\* threshold minutes old is online; get_all_device_health gives the same
\* record for each device asked for.
C21_OfflineIffNoRecentSample ==
    /\ reply.op = "get_device_health_status" =>
          HealthAsClaimed(reply.value, reply.args[1], reply.args[2], reply.args[3])
    /\ reply.op = "get_all_device_health" =>
          \A d \in reply.args[1] :
              HealthAsClaimed(reply.value.map[d], d, reply.args[2], reply.args[3])

\* a device with an older sample whose latest sample is exactly threshold
\* minutes old is reported online
C21_Witness ==
    /\ reply.op = "get_device_health_status"
    /\ reply.value.is_online
    /\ reply.args[3] - reply.value.last_seen = reply.args[2]
    /\ Len(RowsOf(reply.args[1])) = 2

(***************************************************************************)
(* Claims about the overheating alerts                                     *)
(***************************************************************************)
OverheatAlerts(d, bag) == {m \in BagToSet(bag) : m.kind = "overheating" /\ m.device = d}
NormalNotice(d) == Message("normal", d, NULL)

LoopOver == ppc \in {"stopped", "interrupted"}

\* the cycle that was in flight is complete: every task was awaited and
\* every polled sample was handled
InFlightCycleComplete ==
    /\ \A d \in PollerNames : fetch[d] \notin {"created", "inflight"}
    /\ poll_count > 0 => awaited = Len(Tasks)
    /\ \A i \in DOMAIN results : <<poll_count, results[i]>> \in inserted

\* C23: when a shutdown has ended the loop, the cycle that was in flight is
\* complete with every sample it polled stored; no cycle starts once the
\* loop has ended; and once main() is past db.close() the checkpoint of the
\* write-ahead log was attempted and the connection is closed, also when the
\* checkpoint failed.
C23_ShutdownAfterCycle ==
    /\ [](LoopOver => InFlightCycleComplete)
    /\ [][LoopOver => poll_count' = poll_count /\ inserted' = inserted]_vars
    /\ [](mpc \in {"closed", "raised", "summary"} =>
             conn = "closed" /\ wal \in {"checkpointed", "checkpoint_failed"})

\* C27: every Store operation main() issues for the session summary is
\* issued on an open connection.
C27_NoStoreCallAfterClose ==
    \A c \in store_calls : c.conn = "open"

(***************************************************************************)
(* Claims about difficulty parsing                                         *)
(***************************************************************************)
RECURSIVE Pow10(_)
Pow10(n) == IF n = 0 THEN 1 ELSE 10 * Pow10(n - 1)

SuffixPowers == {<<"K", 3>>, <<"M", 6>>, <<"G", 9>>, <<"T", 12>>}
SameLetter(c, suffix) ==
    \/ c = suffix
    \/ <<c, suffix>> \in {<<"k", "K">>, <<"m", "M">>, <<"g", "G">>, <<"t", "T">>}

\* the positions of the digits of a text, and the number a decimal numeral
\* (digits with at most one point) denotes, by place value
DigitsAt(t) == {i \in DOMAIN t : t[i] \in DigitChars}
IsNumeral(t) ==
    /\ DigitsAt(t) # {}
    /\ \A i \in DOMAIN t : t[i] \in DigitChars \cup {"."}
    /\ Cardinality({i \in DOMAIN t : t[i] = "."}) <= 1
RECURSIVE PlaceSum(_, _)
PlaceSum(t, S) ==
    IF S = {} THEN 0
    ELSE LET i == CHOOSE j \in S : TRUE
         IN  DigitVal(t[i]) * Pow10(Cardinality({j \in DigitsAt(t) : j > i}))
             + PlaceSum(t, S \ {i})
NumeralValue(t, power) ==
    LET point == {i \in DOMAIN t : t[i] = "."}
        after == IF point = {} THEN 0
                 ELSE Cardinality({j \in DigitsAt(t) : \A q \in point : j > q})
    IN  Float(PlaceSum(t, DigitsAt(t)), power - after)

\* the readings of a string as a numeral, then an optional suffix, with
\* spaces allowed before, between and after: each reading with its value
Readings(chars) ==
    {NumeralValue(SubSeq(chars, i, j), sp[2]) :
        <<i, j, sp>> \in {x \in (DOMAIN chars) \X (DOMAIN chars) \X (SuffixPowers \cup {<<"", 0>>}) :
            /\ x[1] <= x[2]
            /\ IsNumeral(SubSeq(chars, x[1], x[2]))
            /\ \A q \in 1..(x[1] - 1) : chars[q] = " "
            /\ IF x[3][2] = 0
               THEN \A q \in (x[2] + 1)..Len(chars) : chars[q] = " "
               ELSE \E k \in (x[2] + 1)..Len(chars) :
                       /\ SameLetter(chars[k], x[3][1])
                       /\ \A q \in ((x[2] + 1)..Len(chars)) \ {k} : chars[q] = " "}}

\* what the claim requires parse_difficulty to return
AsClaimed(v) ==
    IF v = None THEN None
    ELSE IF v.kind = "num" THEN Float(v.digits, v.exp)
    ELSE IF v.kind = "str" /\ Readings(v.chars) # {}
         THEN CHOOSE x \in Readings(v.chars) : TRUE
    ELSE None

HashrateMembers(k) ==
    Store_bucket_rows(RowsOf(reply.args[2]), reply.value.anchor, reply.args[3],
                      reply.args[4], reply.value.below, reply.args[4] - k)
Physical(rows) == SelectSeq(rows, LAMBDA r : r.asic_temp > 0)

ChartRequest == reply'.op = "generate_chart" /\ now' = now /\ reply' # reply
RequestKey == cache_key(reply'.args[1], reply'.args[2], reply'.args[3])
AgeSeconds(key) == (now - cache[key].timestamp) * 60

\* C26: a chart request whose key was cached less than the TTL before gets
\* the cached bytes and renders nothing; no request gets bytes cached the TTL
\* or longer before; a request that finds its key expired or missing
\* renders a figure and caches it with the time of the request; entries of
\* other keys are left alone.
C26_ChartCache ==
    [][ChartRequest =>
         /\ (RequestKey \in DOMAIN cache /\ AgeSeconds(RequestKey) < cache_ttl) =>
               /\ reply'.value = cache[RequestKey].data
               /\ generated' = generated
               /\ cache' = cache
         /\ (RequestKey \notin DOMAIN cache \/ AgeSeconds(RequestKey) >= cache_ttl) =>
               /\ generated' = generated + 1
               /\ reply'.value = Bytes(generated')
               /\ \A k \in DOMAIN cache : reply'.value # cache[k].data
               /\ DOMAIN cache' = DOMAIN cache \cup {RequestKey}
               /\ cache'[RequestKey] = [data |-> reply'.value, timestamp |-> now]
               /\ \A k \in (DOMAIN cache) \ {RequestKey} : cache'[k] = cache[k]]_vars

\* one key was rendered, hit within the TTL, found expired at exactly the
\* TTL and rendered again, and the request just made got the second figure
\* from the cache
C26_Witness ==
    /\ reply.op = "generate_chart"
    /\ generated = 2
    /\ DOMAIN cache = {cache_key("swarm_hashrate", 12, <<IdB, IdA>>)}
    /\ cache[cache_key("swarm_hashrate", 12, <<IdB, IdA>>)] =
          [data |-> Bytes(2), timestamp |-> 5]
    /\ reply.value = Bytes(2)
    /\ reply.args[4] > 5

(***************************************************************************)
(* Claims about the scheduler                                              *)
(***************************************************************************)
\* C28: once on_ready has run with alerts enabled and their channel id
\* configured, the alert-check job is registered and the scheduler it is
\* registered on has been started, whatever the auto_report and
\* weekly_report settings are.
C28_AlertJobOnStartedScheduler ==
    (bot = "ready" /\ config.alerts = "on") =>
        ("alert_checks" \in jobs /\ scheduler_running)

(***************************************************************************)
(* Claims about device control                                             *)
(***************************************************************************)
Within(value, lo, hi) == lo <= value /\ value <= hi

\* C29: every frequency, core voltage, manual fan speed and minimum fan
\* speed in a payload sent to a device lies within CONTROL_LIMITS, and so
\* does each of these values in every saved profile.
C29_WritesWithinLimits ==
    /\ \A i \in DOMAIN patches :
          /\ "frequency" \in DOMAIN patches[i] =>
                Within(patches[i].frequency, CONTROL_LIMITS.min_frequency,
                       CONTROL_LIMITS.max_frequency)
          /\ "coreVoltage" \in DOMAIN patches[i] =>
                Within(patches[i].coreVoltage, CONTROL_LIMITS.min_voltage,
                       CONTROL_LIMITS.max_voltage)
          /\ "manualFanSpeed" \in DOMAIN patches[i] =>
                Within(patches[i].manualFanSpeed, CONTROL_LIMITS.min_fan_speed,
                       CONTROL_LIMITS.max_fan_speed)
          /\ "minFanSpeed" \in DOMAIN patches[i] =>
                Within(patches[i].minFanSpeed, CONTROL_LIMITS.min_fan_speed,
                       CONTROL_LIMITS.max_fan_speed)
    /\ \A d \in ApiDevices : \A i \in DOMAIN profiles[d] :
          /\ Within(profiles[d][i].frequency, CONTROL_LIMITS.min_frequency,
                    CONTROL_LIMITS.max_frequency)
          /\ Within(profiles[d][i].core_voltage, CONTROL_LIMITS.min_voltage,
                    CONTROL_LIMITS.max_voltage)
          /\ Within(profiles[d][i].fan_speed, CONTROL_LIMITS.min_fan_speed,
                    CONTROL_LIMITS.max_fan_speed)
          /\ Within(profiles[d][i].min_fan_speed, CONTROL_LIMITS.min_fan_speed,
                    CONTROL_LIMITS.max_fan_speed)

(***************************************************************************)
(* Claims about the two session reconstructions                            *)
(***************************************************************************)
\* the keys of the dictionary an implementation returns, or no result
Returned(value) ==
    IF value = None THEN None
    ELSE [session_hours |-> value.session_hours, total_hours |-> value.total_hours]

\* rows i-1, i where the uptime fell to less than an hour, and where it
\* fell but stayed at an hour or more
RebootAt(rows, i) == rows[i] < rows[i - 1] /\ rows[i] < MAX_RESTART_UPTIME
SkewAt(rows, i) == rows[i] < rows[i - 1] /\ rows[i] >= MAX_RESTART_UPTIME

\* C30: for every uptime history of a device, get_total_uptime of
\* src/dashboard.py (local mode) and get_total_uptime of src/api_server.py
\* return the same session_hours and total_hours, or both return no result;
\* the answer the API server gave is the one the dashboard computes.
C30_UptimeImplsAgree ==
    /\ Returned(Dashboard_get_total_uptime(UptimeRows("d1")))
         = Returned(Api_get_total_uptime(UptimeRows("d1")))
    /\ (reply.op = "get_total_uptime" /\ reply.args[1] = "api_server") =>
         Returned(reply.value) = Returned(Dashboard_get_total_uptime(UptimeRows(reply.args[2])))

\* the API server answered for a history with a reboot and a clock
\* adjustment, the reboot adding a closed session to the total
C30_Witness ==
    /\ reply.op = "get_total_uptime" /\ reply.args[1] = "api_server"
    /\ reply.value # None
    /\ \E i \in 2..Len(UptimeRows("d1")) : RebootAt(UptimeRows("d1"), i)
    /\ \E i \in 2..Len(UptimeRows("d1")) : SkewAt(UptimeRows("d1"), i)
    /\ reply.value.total_hours # reply.value.session_hours

====
